---- MODULE Spec2Model ----
(***************************************************************************)
(* Sprint analytics engine of sprint_dashboard.py: SprintAnalytics         *)
(* (metrics, timeline, health status, burndown, burnup, table rows, summary *)
(* context) and MultiSprintAnalytics (velocity trend, sprint comparison,   *)
(* completion forecast), called one at a time and from several threads,    *)
(* and the work item graph of dependency_graph.py: DependencyGraphBuilder  *)
(* (nodes, relationship edges, blocked items).                             *)
(*                                                                         *)
(* Numbers: Python floats are modelled as exact rationals [n, d] in lowest *)
(* terms (d > 0).  Timestamps are integer ticks, TicksPerDay ticks to the  *)
(* day, so that timedelta.days (a floor) is visible.                       *)
(***************************************************************************)
EXTENDS Integers, Sequences, FiniteSets, TLC

VARIABLES work_items,      \* SprintAnalytics.work_items
          iteration_data,  \* SprintAnalytics.iteration_data
          now,             \* the wall clock read by datetime.now()
          sprints_data,    \* MultiSprintAnalytics.sprints_data
          ret,             \* the last operation called and the value it returned
          calls,           \* the invocations in flight, each with its local variables
          graph,           \* DependencyGraphBuilder.graph
          work_items_data  \* DependencyGraphBuilder.work_items_data

vars == <<work_items, iteration_data, now, sprints_data, ret, calls, graph, work_items_data>>

----------------------------------------------------------------------------
(* Bounds of the model *)

MaxItems == 2        \* work items of one sprint
MaxPoints == 2       \* story points of one work item
MaxTick == 8         \* latest timestamp (in ticks) of the clock and the dates
MaxTenths == 500     \* largest rate (in tenths of a percent) given to the health rule
MaxTrendLen == 7     \* sprints in a velocity history
MaxSprints == 3      \* sprints held by a MultiSprintAnalytics
TicksPerDay == 2     \* clock ticks to the day
StartTick == 2       \* the start date of the valid iteration windows
MaxThreads == 2      \* threads calling into the engines at the same time
MaxLinks == 2        \* relations among the work items given to the graph builder

----------------------------------------------------------------------------
(* Rational arithmetic standing for Python float arithmetic *)

Abs(x) == IF x < 0 THEN -x ELSE x

RECURSIVE GCD(_, _)
GCD(a, b) == IF b = 0 THEN a ELSE GCD(b, a % b)

\* the outcome of a division by zero (ZeroDivisionError); every operation on
\* it yields it again
DivFault == [n |-> 0, d |-> 0]

Rat(n, d) ==
    IF d = 0 THEN DivFault
    ELSE LET g == GCD(Abs(n), Abs(d))
             s == IF d < 0 THEN -1 ELSE 1
         IN  [n |-> (s * n) \div g, d |-> (s * d) \div g]

Int2Rat(k) == [n |-> k, d |-> 1]
Zero == Int2Rat(0)

RatAdd(a, b) == Rat(a.n * b.d + b.n * a.d, a.d * b.d)
RatSub(a, b) == Rat(a.n * b.d - b.n * a.d, a.d * b.d)
RatMul(a, b) == Rat(a.n * b.n, a.d * b.d)
RatDiv(a, b) == Rat(a.n * b.d, a.d * b.n)
RatLE(a, b) == a.n * b.d <= b.n * a.d
RatLT(a, b) == a.n * b.d < b.n * a.d
\* max(a, b): a unless b is larger
RatMax(a, b) == IF a.d = 0 \/ b.d = 0 THEN DivFault ELSE IF RatLT(a, b) THEN b ELSE a
\* min(a, b)
RatMin(a, b) == IF a.d = 0 \/ b.d = 0 THEN DivFault ELSE IF RatLT(b, a) THEN b ELSE a
RatAbs(a) == [n |-> Abs(a.n), d |-> a.d]

\* round(x, 1): to one decimal, ties to the even tenth
Round1(x) ==
    IF x.d = 0 THEN x
    ELSE LET t == (10 * x.n) \div x.d
             r == 10 * x.n - t * x.d
         IN  IF 2 * r > x.d THEN Rat(t + 1, 10)
             ELSE IF 2 * r < x.d THEN Rat(t, 10)
             ELSE IF t % 2 = 0 THEN Rat(t, 10) ELSE Rat(t + 1, 10)

----------------------------------------------------------------------------
(* Work item records: the 'fields' dictionary of one work item *)

Absent == "<absent>"

\* str.lower() on the state strings of the model
Lower(s) ==
    CASE s = "Closed" -> "closed"
      [] s = "CLOSED" -> "closed"
      [] s = "Done" -> "done"
      [] s = "Resolved" -> "resolved"
      [] s = "Completed" -> "completed"
      [] s = "New" -> "new"
      [] s = "Active" -> "active"
      [] s = "In Review" -> "in review"
      [] s = "Unknown" -> "unknown"
      [] OTHER -> s

\* fields.get('System.State', 'Unknown')
StateOf(wi) == IF wi.state = Absent THEN "Unknown" ELSE wi.state

\* fields.get('Microsoft.VSTS.Scheduling.StoryPoints', 0) or 0
StoryPoints(wi) == IF wi.points = <<>> THEN 0 ELSE wi.points[1]

\* fields.get('System.WorkItemType', 'Unknown')
TypeOf(wi) == IF wi.type = Absent THEN "Unknown" ELSE wi.type

\* the displayName of a dict assignee, 'Unassigned' for anything else
AssigneeOf(wi) ==
    IF wi.assignee.kind = "dict" /\ wi.assignee.displayName # Absent
    THEN wi.assignee.displayName
    ELSE "Unassigned"

\* the done predicate of the work item analyzer, with 'completed'
IsCompletedWide(wi) == Lower(StateOf(wi)) \in {"closed", "done", "resolved", "completed"}

\* state.lower() in ['closed', 'done', 'resolved']
IsCompleted(wi) == Lower(StateOf(wi)) \in {"closed", "done", "resolved"}

StateBuckets == {"New", "Active", "Resolved", "Closed", "Other"}

\* the bucket found without regard to the case of the state
BucketOf_caseless(wi) ==
    CASE Lower(StateOf(wi)) = "new" -> "New"
      [] Lower(StateOf(wi)) = "active" -> "Active"
      [] Lower(StateOf(wi)) = "resolved" -> "Resolved"
      [] Lower(StateOf(wi)) = "closed" -> "Closed"
      [] OTHER -> "Other"

\* the bucket one work item increments
BucketOf(wi) ==
    IF StateOf(wi) \in {"New", "Active", "Resolved", "Closed", "Other"}
    THEN StateOf(wi) ELSE "Other"

RECURSIVE SumPointsOpen(_, _)
\* total_points accumulated only for the items that are not completed
SumPointsOpen(items, i) ==
    IF i = 0 THEN 0
    ELSE SumPointsOpen(items, i - 1)
         + (IF Lower(StateOf(items[i])) \in {"closed", "done", "resolved"}
            THEN 0 ELSE StoryPoints(items[i]))

RECURSIVE SumPoints(_, _)
\* total_points after the loop over items[1..i]
SumPoints(items, i) ==
    IF i = 0 THEN 0 ELSE SumPoints(items, i - 1) + StoryPoints(items[i])

RECURSIVE SumCompleted_pending(_, _)
\* completed_points accumulated for the items that are not completed
SumCompleted_pending(items, i) ==
    IF i = 0 THEN 0
    ELSE SumCompleted_pending(items, i - 1)
         + (IF IsCompleted(items[i]) THEN 0 ELSE StoryPoints(items[i]))

RECURSIVE SumCompleted(_, _)
\* completed_points after the loop over items[1..i]
SumCompleted(items, i) ==
    IF i = 0 THEN 0
    ELSE SumCompleted(items, i - 1)
         + (IF IsCompleted(items[i]) THEN StoryPoints(items[i]) ELSE 0)

----------------------------------------------------------------------------
(* Iteration window and sprint timeline *)

AbsentDate == [kind |-> "absent", tick |-> 0]     \* no date string (None or '')
BadDate == [kind |-> "bad", tick |-> 0]           \* fromisoformat raises on it
DateAt(t) == [kind |-> "ts", tick |-> t]          \* an ISO timestamp at tick t

\* iteration_data None or {} (the constructor stores {} for None)
NoIteration ==
    [kind |-> "none", name |-> Absent, startDate |-> AbsentDate, finishDate |-> AbsentDate]
\* an iteration dictionary with a name and the two date strings of its attributes
Window(name, s, e) == [kind |-> "window", name |-> name, startDate |-> s, finishDate |-> e]

ZeroProgress ==
    [days_elapsed |-> 0, days_remaining |-> 0, days_total |-> 0, progress_pct |-> Zero]

\* timedelta.days of a difference of two timestamps
Days(delta) == delta \div TicksPerDay

Max(a, b) == IF a >= b THEN a ELSE b

\* the days elapsed taken from the end date: the days still to come
TimelineOf_countdown(start, end, today) ==
    LET days_total == Days(end - start)
        days_elapsed == Max(0, Days(end - today))
        days_remaining == Max(0, Days(end - today))
        progress_pct == IF days_total > 0
                        THEN RatMul(Rat(days_elapsed, days_total), Int2Rat(100))
                        ELSE Zero
    IN  [days_elapsed |-> days_elapsed,
         days_remaining |-> days_remaining,
         days_total |-> days_total,
         progress_pct |-> Round1(progress_pct),
         start_date |-> Days(start),
         end_date |-> Days(end)]

\* the days elapsed counted from the start date without a floor of 0
TimelineOf_unclamped(start, end, today) ==
    LET days_total == Days(end - start)
        days_elapsed == Days(today - start)
        days_remaining == Max(0, Days(end - today))
        progress_pct == IF days_total > 0
                        THEN RatMul(Rat(days_elapsed, days_total), Int2Rat(100))
                        ELSE Zero
    IN  [days_elapsed |-> days_elapsed,
         days_remaining |-> days_remaining,
         days_total |-> days_total,
         progress_pct |-> Round1(progress_pct),
         start_date |-> Days(start),
         end_date |-> Days(end)]

\* the try block of _calculate_sprint_progress, both dates parsed
TimelineOf(start, end, today) ==
    LET days_total == Days(end - start)
        days_elapsed == Max(0, Days(today - start))
        days_remaining == Max(0, Days(end - today))
        progress_pct == IF days_total > 0
                        THEN RatMul(Rat(days_elapsed, days_total), Int2Rat(100))
                        ELSE Zero
    IN  [days_elapsed |-> days_elapsed,
         days_remaining |-> days_remaining,
         days_total |-> days_total,
         progress_pct |-> Round1(progress_pct),
         start_date |-> Days(start),
         end_date |-> Days(end)]

\* a window without a usable end date taken as ending today
calculate_sprint_progress_open_ended(iter, today) ==
    IF iter.kind = "none" THEN ZeroProgress
    ELSE IF iter.startDate.kind # "ts" THEN ZeroProgress
    ELSE IF iter.finishDate.kind # "ts"
         THEN TimelineOf(iter.startDate.tick, today, today)
    ELSE TimelineOf(iter.startDate.tick, iter.finishDate.tick, today)

calculate_sprint_progress(iter, today) ==
    IF iter.kind = "none" THEN ZeroProgress
    ELSE IF iter.startDate.kind = "absent" \/ iter.finishDate.kind = "absent"
         THEN ZeroProgress
    ELSE IF iter.startDate.kind = "bad" \/ iter.finishDate.kind = "bad"
         THEN ZeroProgress
    ELSE TimelineOf(iter.startDate.tick, iter.finishDate.tick, today)

----------------------------------------------------------------------------
(* Health status *)

BehindFactor == Rat(7, 10)    \* the factor 0.7

\* the yellow band taken strictly above 0.7 * progress_pct
calculate_health_status_strict(completion_rate, sprint_progress) ==
    LET progress_pct == IF "progress_pct" \in DOMAIN sprint_progress
                        THEN sprint_progress.progress_pct
                        ELSE Zero
    IN  IF progress_pct = Zero THEN "unknown"
        ELSE IF RatLE(progress_pct, completion_rate) THEN "green"
        ELSE IF RatLT(RatMul(progress_pct, BehindFactor), completion_rate) THEN "yellow"
        ELSE "red"

calculate_health_status(completion_rate, sprint_progress) ==
    LET progress_pct == IF "progress_pct" \in DOMAIN sprint_progress
                        THEN sprint_progress.progress_pct
                        ELSE Zero                   \* .get('progress_pct', 0)
    IN  IF progress_pct = Zero THEN "unknown"
        ELSE IF RatLE(progress_pct, completion_rate) THEN "green"
        ELSE IF RatLE(RatMul(progress_pct, BehindFactor), completion_rate) THEN "yellow"
        ELSE "red"

----------------------------------------------------------------------------
(* calculate_metrics *)

empty_metrics ==
    [total_items |-> 0,
     closed_items |-> 0,
     total_points |-> 0,
     completed_points |-> 0,
     remaining_points |-> 0,
     completion_rate |-> Zero,
     item_completion_rate |-> Zero,
     state_counts |-> <<>>,
     type_counts |-> <<>>,
     assignee_counts |-> <<>>,
     sprint_progress |-> ZeroProgress,
     health_status |-> "unknown"]

state_counts_of(items) ==
    [b \in StateBuckets |-> Cardinality({i \in 1..Len(items) : BucketOf(items[i]) = b})]

\* the type counts of the items that carry a type only
type_counts_typed(items) ==
    [t \in {items[i].type : i \in {j \in 1..Len(items) : items[j].type # Absent}} |->
        Cardinality({i \in 1..Len(items) : items[i].type = t})]

type_counts_of(items) ==
    [t \in {TypeOf(items[i]) : i \in 1..Len(items)} |->
        Cardinality({i \in 1..Len(items) : TypeOf(items[i]) = t})]

assignee_counts_of(items) ==
    [a \in {AssigneeOf(items[i]) : i \in 1..Len(items)} |->
        Cardinality({i \in 1..Len(items) : AssigneeOf(items[i]) = a})]

\* the completion rate computed for a sprint without story points too
completion_rate_unguarded(completed_points, total_points) ==
    RatMul(Rat(completed_points, total_points), Int2Rat(100))

\* a sprint without story points taken as fully completed
completion_rate_vacuous(completed_points, total_points) ==
    IF total_points > 0
    THEN RatMul(Rat(completed_points, total_points), Int2Rat(100))
    ELSE Int2Rat(100)

\* completion_rate before rounding
completion_rate_of(completed_points, total_points) ==
    IF total_points > 0
    THEN RatMul(Rat(completed_points, total_points), Int2Rat(100))
    ELSE Zero

\* closed_items counted with the done predicate of the point totals
closed_items_done(items) == Cardinality({i \in 1..Len(items) : IsCompleted(items[i])})

\* closed_items: the Closed and the Resolved buckets
closed_items_of(items) == state_counts_of(items)["Closed"] + state_counts_of(items)["Resolved"]

\* calculate_metrics past its early return
metrics_of(items, iter, today) ==
    LET total_items == Len(items)
        total_points == SumPoints(items, Len(items))
        completed_points == SumCompleted(items, Len(items))
        state_counts == state_counts_of(items)
        completion_rate == completion_rate_of(completed_points, total_points)
        closed_items == closed_items_of(items)
        item_completion_rate == IF total_items > 0
                                THEN RatMul(Rat(closed_items, total_items), Int2Rat(100))
                                ELSE Zero
        sprint_progress == calculate_sprint_progress(iter, today)
    IN  [total_items |-> total_items,
         closed_items |-> closed_items,
         total_points |-> total_points,
         completed_points |-> completed_points,
         remaining_points |-> total_points - completed_points,
         completion_rate |-> Round1(completion_rate),
         item_completion_rate |-> Round1(item_completion_rate),
         state_counts |-> state_counts,
         type_counts |-> type_counts_of(items),
         assignee_counts |-> assignee_counts_of(items),
         sprint_progress |-> sprint_progress,
         health_status |-> calculate_health_status(completion_rate, sprint_progress)]

\* calculate_metrics without its early return
calculate_metrics_unguarded(items, iter, today) == metrics_of(items, iter, today)

calculate_metrics(items, iter, today) ==
    IF Len(items) = 0 THEN empty_metrics ELSE metrics_of(items, iter, today)

----------------------------------------------------------------------------
(* Burndown and burnup series: entry d + 1 of a series is day d *)

\* the ideal line spread over one day too many
ideal_burndown_late(total_points, days_total) ==
    [i \in 1..(days_total + 1) |->
        RatMax(Zero, RatMul(total_points,
                            RatSub(Int2Rat(1), Rat(i - 1, days_total + 1))))]

\* the ideal (linear) burndown
ideal_burndown_of(total_points, days_total) ==
    [i \in 1..(days_total + 1) |->
        RatMax(Zero, RatMul(total_points, RatSub(Int2Rat(1), Rat(i - 1, days_total))))]

\* the projection started from the remaining points instead of the total
actual_burndown_from_remaining(total_points, completed_points, days_elapsed, days_total) ==
    LET shown ==
            [i \in 1..(days_elapsed + 1) |->
                IF days_elapsed > 0
                THEN RatMax(Zero, RatSub(total_points,
                                         RatMul(completed_points, Rat(i - 1, days_elapsed))))
                ELSE total_points]
        velocity == RatDiv(completed_points, Int2Rat(days_elapsed))
        remaining_points == RatSub(total_points, completed_points)
        projected ==
            IF days_elapsed > 0 /\ days_elapsed < days_total
            THEN [i \in 1..(days_total - days_elapsed) |->
                    RatMax(Zero, RatSub(remaining_points,
                                        RatMul(velocity, Int2Rat(days_elapsed + i))))]
            ELSE <<>>
    IN  shown \o projected

\* the actual burndown: progress shown up to today, then projected at the velocity
actual_burndown_of(total_points, completed_points, days_elapsed, days_total) ==
    LET shown ==
            [i \in 1..(days_elapsed + 1) |->
                IF days_elapsed > 0
                THEN RatMax(Zero, RatSub(total_points,
                                         RatMul(completed_points, Rat(i - 1, days_elapsed))))
                ELSE total_points]
        velocity == RatDiv(completed_points, Int2Rat(days_elapsed))
        projected ==
            IF days_elapsed > 0 /\ days_elapsed < days_total
            THEN [i \in 1..(days_total - days_elapsed) |->
                    RatMax(Zero, RatSub(total_points,
                                        RatMul(velocity, Int2Rat(days_elapsed + i))))]
            ELSE <<>>
    IN  shown \o projected

generate_burndown_data(items, iter, today) ==
    LET metrics == calculate_metrics(items, iter, today)
        total_points == Int2Rat(metrics.total_points)
        completed_points == Int2Rat(metrics.completed_points)
        days_total == metrics.sprint_progress.days_total
        days_elapsed == metrics.sprint_progress.days_elapsed
    IN  IF days_total = 0 THEN <<<<>>, <<>>>>
        ELSE <<ideal_burndown_of(total_points, days_total),
               actual_burndown_of(total_points, completed_points, days_elapsed, days_total)>>

\* the total scope line
total_scope_of(total_points, days_total) == [i \in 1..(days_total + 1) |-> total_points]

\* the projection of completed work left uncapped
completed_work_uncapped(total_points, completed_points, days_elapsed, days_total) ==
    LET shown ==
            [i \in 1..(days_elapsed + 1) |->
                IF days_elapsed > 0
                THEN RatMul(completed_points, Rat(i - 1, days_elapsed))
                ELSE Zero]
        velocity == RatDiv(completed_points, Int2Rat(days_elapsed))
        projected ==
            IF days_elapsed > 0 /\ days_elapsed < days_total
            THEN [i \in 1..(days_total - days_elapsed) |->
                    RatMul(velocity, Int2Rat(days_elapsed + i))]
            ELSE <<>>
    IN  shown \o projected

\* the completed work shown in full on every day up to today
completed_work_stepped(total_points, completed_points, days_elapsed, days_total) ==
    LET shown ==
            [i \in 1..(days_elapsed + 1) |->
                IF days_elapsed > 0 THEN completed_points ELSE Zero]
        velocity == RatDiv(completed_points, Int2Rat(days_elapsed))
        projected ==
            IF days_elapsed > 0 /\ days_elapsed < days_total
            THEN [i \in 1..(days_total - days_elapsed) |->
                    RatMin(total_points, RatMul(velocity, Int2Rat(days_elapsed + i)))]
            ELSE <<>>
    IN  shown \o projected

\* the completed work line: accumulation up to today, then projected and capped
completed_work_of(total_points, completed_points, days_elapsed, days_total) ==
    LET shown ==
            [i \in 1..(days_elapsed + 1) |->
                IF days_elapsed > 0
                THEN RatMul(completed_points, Rat(i - 1, days_elapsed))
                ELSE Zero]
        velocity == RatDiv(completed_points, Int2Rat(days_elapsed))
        projected ==
            IF days_elapsed > 0 /\ days_elapsed < days_total
            THEN [i \in 1..(days_total - days_elapsed) |->
                    RatMin(total_points, RatMul(velocity, Int2Rat(days_elapsed + i)))]
            ELSE <<>>
    IN  shown \o projected

generate_burnup_data(items, iter, today) ==
    LET metrics == calculate_metrics(items, iter, today)
        total_points == Int2Rat(metrics.total_points)
        completed_points == Int2Rat(metrics.completed_points)
        days_total == metrics.sprint_progress.days_total
        days_elapsed == metrics.sprint_progress.days_elapsed
    IN  IF days_total = 0 THEN <<<<>>, <<>>>>
        ELSE <<total_scope_of(total_points, days_total),
               completed_work_of(total_points, completed_points, days_elapsed, days_total)>>

\* wi.get('id'), fields.get('System.Title', 'Untitled') and
\* fields.get('Microsoft.VSTS.Common.Priority', 'N/A') of a work item record,
\* which carries these keys or not
IdOf(wi) == IF "id" \in DOMAIN wi THEN wi.id ELSE "None"
TitleOf(wi) == IF "title" \in DOMAIN wi THEN wi.title ELSE "Untitled"
PriorityOf(wi) == IF "priority" \in DOMAIN wi THEN wi.priority ELSE "N/A"

\* one row of the work item table
Row(wi) ==
    [ID |-> IdOf(wi),
     Type |-> TypeOf(wi),
     Title |-> TitleOf(wi),
     State |-> StateOf(wi),
     AssignedTo |-> AssigneeOf(wi),
     StoryPoints |-> StoryPoints(wi),
     Priority |-> PriorityOf(wi)]

\* the table filled from the last work item to the first
get_work_items_table_data_reversed(items) ==
    [i \in 1..Len(items) |-> Row(items[Len(items) + 1 - i])]

get_work_items_table_data(items) == [i \in 1..Len(items) |-> Row(items[i])]

\* str.upper() on the health statuses
Upper(s) ==
    CASE s = "green" -> "GREEN"
      [] s = "yellow" -> "YELLOW"
      [] s = "red" -> "RED"
      [] s = "unknown" -> "UNKNOWN"
      [] OTHER -> s

\* the keys of state_counts in insertion order
BucketOrder == <<"New", "Active", "Resolved", "Closed", "Other">>

RECURSIVE TypesInOrder(_, _)
\* the keys of type_counts in insertion order: the types of items[1..i] by
\* first occurrence
TypesInOrder(items, i) ==
    IF i = 0 THEN <<>>
    ELSE LET before == TypesInOrder(items, i - 1)
         IN  IF \E k \in 1..Len(before) : before[k] = TypeOf(items[i])
             THEN before
             ELSE Append(before, TypeOf(items[i]))

\* the warning about New items given when they are as many as the closed ones
risk_lines_inclusive(metrics) ==
    LET new_count == IF "New" \in DOMAIN metrics.state_counts
                     THEN metrics.state_counts["New"] ELSE 0
    IN  (IF metrics.health_status = "red"
         THEN << <<"- Sprint is significantly behind schedule">> >>
         ELSE IF metrics.health_status = "yellow"
         THEN << <<"- Sprint is slightly behind schedule">> >>
         ELSE <<>>)
        \o (IF new_count >= metrics.closed_items
            THEN << <<"- Many work items are still in 'New' state">> >>
            ELSE <<>>)

\* the lines under "Potential Risks"
risk_lines(metrics) ==
    LET new_count == IF "New" \in DOMAIN metrics.state_counts
                     THEN metrics.state_counts["New"] ELSE 0
    IN  (IF metrics.health_status = "red"
         THEN << <<"- Sprint is significantly behind schedule">> >>
         ELSE IF metrics.health_status = "yellow"
         THEN << <<"- Sprint is slightly behind schedule">> >>
         ELSE <<>>)
        \o (IF new_count > metrics.closed_items
            THEN << <<"- Many work items are still in 'New' state">> >>
            ELSE <<>>)

\* the context text as its sequence of lines, a line being its label and the
\* values formatted into it
generate_ai_summary_context(items, iter, today) ==
    LET metrics == calculate_metrics(items, iter, today)
        sprint_progress == metrics.sprint_progress
        listed(state) == /\ state \in DOMAIN metrics.state_counts
                         /\ metrics.state_counts[state] > 0
        states == SelectSeq(BucketOrder, listed)
        types == IF Len(items) = 0 THEN <<>> ELSE TypesInOrder(items, Len(items))
    IN  << <<"**Sprint Overview**">>,
           <<"- Total Work Items:", metrics.total_items>>,
           <<"- Closed Work Items:", metrics.closed_items>>,
           <<"- Total Story Points:", metrics.total_points>>,
           <<"- Completed Story Points:", metrics.completed_points>>,
           <<"- Completion Rate:", metrics.completion_rate>>,
           <<"- Health Status:", Upper(metrics.health_status)>>,
           <<"**Sprint Timeline**">>,
           <<"- Days Elapsed:", sprint_progress.days_elapsed>>,
           <<"- Days Remaining:", sprint_progress.days_remaining>>,
           <<"- Sprint Progress:", sprint_progress.progress_pct>>,
           <<"**Work Item Breakdown by State**">> >>
        \o [k \in 1..Len(states) |-> <<"-", states[k], metrics.state_counts[states[k]]>>]
        \o << <<"**Work Item Breakdown by Type**">> >>
        \o [k \in 1..Len(types) |-> <<"-", types[k], metrics.type_counts[types[k]]>>]
        \o << <<"**Potential Risks**">> >>
        \o risk_lines(metrics)

----------------------------------------------------------------------------
(* MultiSprintAnalytics *)

RECURSIVE Sum(_, _, _)
\* sum(seq[lo..hi]) of a sequence of integers
Sum(seq, lo, hi) == IF lo > hi THEN 0 ELSE seq[hi] + Sum(seq, lo, hi - 1)

Up == Rat(11, 10)      \* the factor 1.1
Down == Rat(9, 10)     \* the factor 0.9

\* the 10% band taken without its edges
calculate_trend_inclusive(velocities) ==
    LET n == Len(velocities)
        first == Max(1, n - 2)
        recent_avg == Rat(Sum(velocities, first, n), n - first + 1)
        older_avg == IF n > 3 THEN Rat(Sum(velocities, 1, n - 3), n - 3)
                     ELSE Int2Rat(velocities[1])
    IN  IF n < 2 THEN "stable"
        ELSE IF RatLE(RatMul(older_avg, Up), recent_avg) THEN "increasing"
        ELSE IF RatLE(recent_avg, RatMul(older_avg, Down)) THEN "decreasing"
        ELSE "stable"

calculate_trend(velocities) ==
    LET n == Len(velocities)
        first == Max(1, n - 2)                       \* velocities[-3:] starts here
        recent_avg == Rat(Sum(velocities, first, n), n - first + 1)
        older_avg == IF n > 3 THEN Rat(Sum(velocities, 1, n - 3), n - 3)
                     ELSE Int2Rat(velocities[1])
    IN  IF n < 2 THEN "stable"
        ELSE IF RatLT(RatMul(older_avg, Up), recent_avg) THEN "increasing"
        ELSE IF RatLT(recent_avg, RatMul(older_avg, Down)) THEN "decreasing"
        ELSE "stable"

\* sprint_info.get('name', 'Unknown')
SprintName(info) == IF info.name = Absent THEN "Unknown" ELSE info.name

calculate_velocity_trends(sprints, today) ==
    LET sprint_velocities ==
            [i \in 1..Len(sprints) |->
                calculate_metrics(sprints[i].work_items, sprints[i].sprint_info,
                                  today).completed_points]
        sprint_names == [i \in 1..Len(sprints) |-> SprintName(sprints[i].sprint_info)]
        avg_velocity == IF Len(sprints) > 0
                        THEN Rat(Sum(sprint_velocities, 1, Len(sprints)), Len(sprints))
                        ELSE Zero
    IN  [sprint_names |-> sprint_names,
         velocities |-> sprint_velocities,
         average_velocity |-> Round1(avg_velocity),
         trend |-> calculate_trend(sprint_velocities)]

\* the six arrays filled newest sprint first
compare_sprints_newest_first(sprints, today) ==
    LET n == Len(sprints)
        metrics(i) == calculate_metrics(sprints[n + 1 - i].work_items,
                                        sprints[n + 1 - i].sprint_info, today)
    IN  [sprint_names |-> [i \in 1..n |-> SprintName(sprints[n + 1 - i].sprint_info)],
         total_points |-> [i \in 1..n |-> metrics(i).total_points],
         completed_points |-> [i \in 1..n |-> metrics(i).completed_points],
         completion_rates |-> [i \in 1..n |-> metrics(i).completion_rate],
         total_items |-> [i \in 1..n |-> metrics(i).total_items],
         closed_items |-> [i \in 1..n |-> metrics(i).closed_items]]

compare_sprints(sprints, today) ==
    LET metrics(i) == calculate_metrics(sprints[i].work_items, sprints[i].sprint_info, today)
    IN  [sprint_names |-> [i \in 1..Len(sprints) |-> SprintName(sprints[i].sprint_info)],
         total_points |-> [i \in 1..Len(sprints) |-> metrics(i).total_points],
         completed_points |-> [i \in 1..Len(sprints) |-> metrics(i).completed_points],
         completion_rates |-> [i \in 1..Len(sprints) |-> metrics(i).completion_rate],
         total_items |-> [i \in 1..Len(sprints) |-> metrics(i).total_items],
         closed_items |-> [i \in 1..Len(sprints) |-> metrics(i).closed_items]]

Inf == [n |-> 1, d |-> 0]       \* float('inf')
SprintDays == Int2Rat(10)       \* "Assuming 10 days in sprint"

\* the variance taken with its sign
confidence_of_signed(current_velocity, avg_velocity) ==
    LET velocity_variance ==
            IF RatLT(Zero, avg_velocity)
            THEN RatDiv(RatSub(current_velocity, avg_velocity), avg_velocity)
            ELSE Int2Rat(1)
    IN  IF RatLT(velocity_variance, Rat(2, 10)) THEN "high"
        ELSE IF RatLT(velocity_variance, Rat(4, 10)) THEN "medium"
        ELSE "low"

confidence_of(current_velocity, avg_velocity) ==
    LET velocity_variance ==
            IF RatLT(Zero, avg_velocity)
            THEN RatDiv(RatAbs(RatSub(current_velocity, avg_velocity)), avg_velocity)
            ELSE Int2Rat(1)
    IN  IF RatLT(velocity_variance, Rat(2, 10)) THEN "high"
        ELSE IF RatLT(velocity_variance, Rat(4, 10)) THEN "medium"
        ELSE "low"

\* a stalled sprint forecast as zero days of work left
predict_completion_stalled(sprints, today, remaining_points, current_velocity) ==
    LET days_needed == IF current_velocity = Zero
                       THEN Zero
                       ELSE RatDiv(remaining_points, current_velocity)
        avg_velocity == calculate_velocity_trends(sprints, today).average_velocity
    IN  [days_needed |-> Round1(days_needed),
         can_complete |-> RatLE(days_needed, SprintDays),
         confidence |-> confidence_of(current_velocity, avg_velocity),
         message |-> <<"Estimated", Round1(days_needed), "days to complete remaining work">>]

\* can_complete decided on the rounded days_needed
predict_completion_rounded(sprints, today, remaining_points, current_velocity) ==
    IF current_velocity = Zero
    THEN [days_needed |-> Inf,
          can_complete |-> FALSE,
          confidence |-> "low",
          message |-> <<"No velocity detected yet">>]
    ELSE
    LET days_needed == Round1(RatDiv(remaining_points, current_velocity))
        avg_velocity == calculate_velocity_trends(sprints, today).average_velocity
    IN  [days_needed |-> days_needed,
         can_complete |-> RatLE(days_needed, SprintDays),
         confidence |-> confidence_of(current_velocity, avg_velocity),
         message |-> <<"Estimated", days_needed, "days to complete remaining work">>]

predict_completion(sprints, today, remaining_points, current_velocity) ==
    IF current_velocity = Zero
    THEN [days_needed |-> Inf,
          can_complete |-> FALSE,
          confidence |-> "low",
          message |-> <<"No velocity detected yet">>]
    ELSE
    LET days_needed == RatDiv(remaining_points, current_velocity)
        avg_velocity == calculate_velocity_trends(sprints, today).average_velocity
    IN  [days_needed |-> Round1(days_needed),
         can_complete |-> RatLE(days_needed, SprintDays),
         confidence |-> confidence_of(current_velocity, avg_velocity),
         message |-> <<"Estimated", Round1(days_needed), "days to complete remaining work">>]

----------------------------------------------------------------------------
(* DependencyGraphBuilder: a directed graph of work items.  nodes lists the  *)
(* node ids in insertion order, attrs maps a node to its attributes and     *)
(* edges maps a pair <<u, v>> to the attributes of the edge from u to v.    *)

EmptyGraph == [nodes |-> <<>>, attrs |-> <<>>, edges |-> <<>>]    \* nx.DiGraph()

\* the reference names of the relation types
HierarchyReverse == "System.LinkTypes.Hierarchy-Reverse"
HierarchyForward == "System.LinkTypes.Hierarchy-Forward"
DependencyForward == "System.LinkTypes.Dependency-Forward"
DependencyReverse == "System.LinkTypes.Dependency-Reverse"
Related == "System.LinkTypes.Related"

\* the urls of the model: one ending in /workitems/<id>, one ending in
\* /workitems/ and a word, and one of another resource
WorkItemUrl(id) == [kind |-> "workitems", last |-> <<id>>]
WordUrl == [kind |-> "workitems", last |-> <<>>]
OtherUrl == [kind |-> "other", last |-> <<>>]

\* graph.add_node(n, **data): a new node goes last, a known one keeps its place
add_node(G, n, data) ==
    [G EXCEPT !.nodes = IF n \in DOMAIN G.attrs THEN @ ELSE Append(@, n),
              !.attrs = (n :> data) @@ @]

\* graph.add_edge(u, v, rel_type=...) between two nodes of the graph: an edge
\* already there takes the new rel_type
add_edge(G, u, v, rel_type) ==
    [G EXCEPT !.edges = (<<u, v>> :> [rel_type |-> rel_type]) @@ @]

\* graph.predecessors(n): the nodes with an edge into n
predecessors(G, n) == {p \in DOMAIN G.attrs : <<p, n>> \in DOMAIN G.edges}

\* the details stored for a work item that carries an id and a state only
NodeData(item) ==
    [id |-> item.id,
     title |-> "Untitled",
     type |-> "Unknown",
     state |-> StateOf(item),
     assignee |-> "Unassigned",
     story_points |-> 0,
     is_blocked |-> FALSE]

RECURSIVE add_nodes(_, _, _)
\* first pass of add_work_items over items[1..i]: the builder with the details
\* stored and the nodes added
add_nodes(B, items, i) ==
    IF i = 0 THEN B
    ELSE LET b == add_nodes(B, items, i - 1)
             data == NodeData(items[i])
         IN  [graph |-> add_node(b.graph, items[i].id, data),
              work_items_data |-> (items[i].id :> data) @@ b.work_items_data]

\* one relation of the item item_id in the second pass
add_relation(G, item_id, rel) ==
    IF rel.url.kind # "workitems" THEN G          \* no '/workitems/' in url
    ELSE IF rel.url.last = <<>> THEN G            \* int() raises ValueError
    ELSE LET rel_id == rel.url.last[1]
         IN  IF rel_id \notin DOMAIN G.attrs THEN G
             ELSE IF rel.rel = HierarchyReverse
                  THEN add_edge(G, rel_id, item_id, "parent")
             ELSE IF rel.rel = HierarchyForward
                  THEN add_edge(G, item_id, rel_id, "child")
             ELSE IF rel.rel = DependencyForward
                  THEN add_edge(G, item_id, rel_id, "depends_on")
             ELSE IF rel.rel = DependencyReverse
                  THEN add_edge(G, rel_id, item_id, "depends_on")
             ELSE IF rel.rel = Related
                  THEN add_edge(G, item_id, rel_id, "related")
             ELSE G

RECURSIVE add_relations(_, _, _, _)
\* relations[1..k] of the item item_id
add_relations(G, item_id, relations, k) ==
    IF k = 0 THEN G
    ELSE add_relation(add_relations(G, item_id, relations, k - 1), item_id, relations[k])

RECURSIVE add_edges(_, _, _)
\* second pass of add_work_items over items[1..i]
add_edges(G, items, i) ==
    IF i = 0 THEN G
    ELSE add_relations(add_edges(G, items, i - 1), items[i].id,
                       items[i].relations, Len(items[i].relations))

NotBlocking == {"Closed", "Done", "Resolved"}

\* the test of _identify_blockers on one node: a predecessor pred of the node
\* such that the edge from the node to pred is a depends_on edge and pred is
\* not done
blocked_by_predecessor(G, node) ==
    \E pred \in predecessors(G, node) :
        /\ <<node, pred>> \in DOMAIN G.edges
        /\ G.edges[<<node, pred>>].rel_type = "depends_on"
        /\ G.attrs[pred].state \notin NotBlocking

identify_blockers(G) ==
    [G EXCEPT !.attrs =
        [node \in DOMAIN G.attrs |->
            IF blocked_by_predecessor(G, node)
            THEN [G.attrs[node] EXCEPT !.is_blocked = TRUE]
            ELSE G.attrs[node]]]

\* the builder after add_work_items(items)
add_work_items(B, items) ==
    LET b == add_nodes(B, items, Len(items))
    IN  [graph |-> identify_blockers(add_edges(b.graph, items, Len(items))),
         work_items_data |-> b.work_items_data]

RECURSIVE blocked_among(_, _, _)
\* get_blocked_items over nodes[1..i]
blocked_among(G, data, i) ==
    IF i = 0 THEN <<>>
    ELSE blocked_among(G, data, i - 1)
         \o (IF G.attrs[G.nodes[i]].is_blocked THEN <<data[G.nodes[i]]>> ELSE <<>>)

get_blocked_items(G, data) == blocked_among(G, data, Len(G.nodes))

----------------------------------------------------------------------------
(* The inputs the engines are built from *)

SeqsUpTo(S, n) == UNION {[1..k -> S] : k \in 0..n}

DefaultAssignee == [kind |-> "dict", displayName |-> "Ann"]
Item(state, points) ==
    [state |-> state, points |-> points, type |-> "Task", assignee |-> DefaultAssignee]

\* items of the timeline specification: open or closed with points, or closed
\* with none
PlainItems ==
    {Item(s, <<p>>) : s \in {"Active", "Closed"}, p \in 1..MaxPoints}
    \cup {Item("Closed", <<0>>)}

ItemStates ==
    {"New", "Active", "Resolved", "Closed", "Done", "closed", "CLOSED", "Completed",
     "In Review", Absent}
ItemPoints == {<<>>} \cup {<<p>> : p \in 0..MaxPoints}

\* items of the work item specification: every state, with and without fields
RichItems ==
    {Item(s, p) : s \in ItemStates, p \in ItemPoints}
    \cup {[state |-> "Closed", points |-> <<1>>, type |-> Absent, assignee |-> a] :
            a \in {[kind |-> "absent", displayName |-> Absent],
                   [kind |-> "str", displayName |-> Absent],
                   [kind |-> "dict", displayName |-> Absent]}}

Ticks == 0..MaxTick

BrokenWindows ==
    {NoIteration,
     Window("Sprint 1", AbsentDate, DateAt(MaxTick)),
     Window("Sprint 1", DateAt(StartTick), AbsentDate),
     Window("Sprint 1", DateAt(StartTick), BadDate)}
ValidWindows == {Window("Sprint 1", DateAt(StartTick), DateAt(e)) : e \in Ticks}

NoCall == [op |-> "none"]

Threads == 1..MaxThreads
\* a thread that is not inside an operation
Idle == [pc |-> "idle"]
NoCalls == [t \in Threads |-> Idle]

----------------------------------------------------------------------------
(* SprintAnalytics: one engine, its clock, and the calls made on it *)

Init ==
    /\ work_items \in SeqsUpTo(PlainItems, MaxItems)
    /\ iteration_data \in BrokenWindows \cup ValidWindows
    /\ now = 0
    /\ calls = NoCalls
    /\ graph = EmptyGraph
    /\ work_items_data = <<>>
    /\ sprints_data = <<>>
    /\ ret = NoCall

\* time passes between two calls
Tick ==
    /\ now < MaxTick
    /\ now' = now + 1
    /\ ret' = NoCall
    /\ UNCHANGED <<work_items, iteration_data, sprints_data, calls, graph, work_items_data>>

CalculateMetrics ==
    /\ ret' = [op |-> "calculate_metrics",
               value |-> calculate_metrics(work_items, iteration_data, now)]
    /\ UNCHANGED <<work_items, iteration_data, now, sprints_data, calls, graph, work_items_data>>

GenerateBurndownData ==
    /\ ret' = [op |-> "generate_burndown_data",
               value |-> generate_burndown_data(work_items, iteration_data, now)]
    /\ UNCHANGED <<work_items, iteration_data, now, sprints_data, calls, graph, work_items_data>>

GenerateBurnupData ==
    /\ ret' = [op |-> "generate_burnup_data",
               value |-> generate_burnup_data(work_items, iteration_data, now)]
    /\ UNCHANGED <<work_items, iteration_data, now, sprints_data, calls, graph, work_items_data>>

Next == Tick \/ CalculateMetrics \/ GenerateBurndownData \/ GenerateBurnupData

Spec == Init /\ [][Next]_vars

----------------------------------------------------------------------------
(* SprintAnalytics over every kind of work item, at a clock held fixed *)

MidSprint == StartTick + 2 * TicksPerDay

InitItems ==
    /\ work_items \in SeqsUpTo(RichItems, MaxItems)
    /\ iteration_data \in
          {NoIteration,
           Window("Sprint 1", DateAt(StartTick), DateAt(MidSprint + 2 * TicksPerDay))}
    /\ now = MidSprint
    /\ calls = NoCalls
    /\ graph = EmptyGraph
    /\ work_items_data = <<>>
    /\ sprints_data = <<>>
    /\ ret = NoCall

NextItems == CalculateMetrics

SpecItems == InitItems /\ [][NextItems]_vars

----------------------------------------------------------------------------
(* SprintAnalytics rebuilt as the board changes: work items get closed *)

BoardItems ==
    {Item(s, p) : s \in {"New", "Active", "In Review", "Closed", "Done"}, p \in ItemPoints}

InitBoard ==
    /\ work_items \in SeqsUpTo(BoardItems, MaxItems)
    /\ iteration_data \in
          {NoIteration,
           Window("Sprint 1", DateAt(StartTick), DateAt(MidSprint + 2 * TicksPerDay))}
    /\ now = MidSprint
    /\ calls = NoCalls
    /\ graph = EmptyGraph
    /\ work_items_data = <<>>
    /\ sprints_data = <<>>
    /\ ret = NoCall

\* item i, not done so far, is closed on the board and the engine is built
\* again from the work items
CloseItem(i) ==
    /\ i \in 1..Len(work_items)
    /\ ~IsCompleted(work_items[i])
    /\ work_items' = [work_items EXCEPT ![i].state = "Closed"]
    /\ ret' = [op |-> "__init__", closed |-> i, was |-> work_items[i].state]
    /\ UNCHANGED <<iteration_data, now, sprints_data, calls, graph, work_items_data>>

NextBoard == (\E i \in 1..MaxItems : CloseItem(i)) \/ CalculateMetrics

SpecBoard == InitBoard /\ [][NextBoard]_vars

----------------------------------------------------------------------------
(* SprintAnalytics: the views of a sprint (table rows, summary context) *)

\* a work item record with its id, title and priority
Ticket(id, state, points) ==
    [id |-> id, title |-> "Fix login", priority |-> 2, state |-> state,
     points |-> points, type |-> "Bug", assignee |-> DefaultAssignee]

ViewItems ==
    {Ticket(7, "Closed", <<2>>), Ticket(8, "New", <<2>>), Ticket(9, "New", <<3>>),
     Ticket(10, "New", <<4>>), Item("Active", <<1>>), Item("Done", <<2>>),
     Item("Resolved", <<>>),
     [state |-> Absent, points |-> <<>>, type |-> Absent,
      assignee |-> [kind |-> "absent", displayName |-> Absent]],
     [state |-> "New", points |-> <<0>>, type |-> "Task",
      assignee |-> [kind |-> "str", displayName |-> Absent]]}

InitViews ==
    /\ work_items \in SeqsUpTo(ViewItems, MaxItems)
    /\ iteration_data \in
          {NoIteration,
           Window("Sprint 1", DateAt(StartTick), DateAt(MidSprint + 2 * TicksPerDay))}
    /\ now = MidSprint
    /\ calls = NoCalls
    /\ graph = EmptyGraph
    /\ work_items_data = <<>>
    /\ sprints_data = <<>>
    /\ ret = NoCall

GetWorkItemsTableData ==
    /\ ret' = [op |-> "get_work_items_table_data",
               value |-> get_work_items_table_data(work_items)]
    /\ UNCHANGED <<work_items, iteration_data, now, sprints_data, calls, graph, work_items_data>>

GenerateAiSummaryContext ==
    /\ ret' = [op |-> "generate_ai_summary_context",
               value |-> generate_ai_summary_context(work_items, iteration_data, now)]
    /\ UNCHANGED <<work_items, iteration_data, now, sprints_data, calls, graph, work_items_data>>

NextViews == GetWorkItemsTableData \/ GenerateAiSummaryContext

SpecViews == InitViews /\ [][NextViews]_vars

----------------------------------------------------------------------------
(* The health rule, the trend rule and the forecast as functions of their
   arguments *)

\* a call about to be made: the operation's arguments, drawn from bounded sets
Pending(args) == [op |-> "pending", args |-> args]

Tenths == {Rat(k, 10) : k \in 0..MaxTenths}

InitHealth ==
    /\ work_items = <<>>
    /\ iteration_data = NoIteration
    /\ now = 0
    /\ calls = NoCalls
    /\ graph = EmptyGraph
    /\ work_items_data = <<>>
    /\ sprints_data = <<>>
    /\ \E completion_rate \in Tenths :
         \E sprint_progress \in {[progress_pct |-> p] : p \in Tenths}
                                \cup {[days_total |-> 0]} :
            ret = Pending(<<completion_rate, sprint_progress>>)

CalculateHealthStatus ==
    /\ ret.op = "pending"
    /\ ret' = [op |-> "_calculate_health_status",
               args |-> ret.args,
               value |-> calculate_health_status(ret.args[1], ret.args[2])]
    /\ UNCHANGED <<work_items, iteration_data, now, sprints_data, calls, graph, work_items_data>>

NextHealth == CalculateHealthStatus

SpecHealth == InitHealth /\ [][NextHealth]_vars

TrendVelocities == {0, 9, 10, 11, 20}

InitTrend ==
    /\ work_items = <<>>
    /\ iteration_data = NoIteration
    /\ now = 0
    /\ calls = NoCalls
    /\ graph = EmptyGraph
    /\ work_items_data = <<>>
    /\ sprints_data = <<>>
    /\ \E velocities \in SeqsUpTo(TrendVelocities, MaxTrendLen) :
            ret = Pending(velocities)

CalculateTrend ==
    /\ ret.op = "pending"
    /\ ret' = [op |-> "_calculate_trend",
               args |-> ret.args,
               value |-> calculate_trend(ret.args)]
    /\ UNCHANGED <<work_items, iteration_data, now, sprints_data, calls, graph, work_items_data>>

NextTrend == CalculateTrend

SpecTrend == InitTrend /\ [][NextTrend]_vars

----------------------------------------------------------------------------
(* MultiSprintAnalytics: a sprint history and a forecast asked of it *)

SprintOf(items) ==
    [sprint_info |-> Window("Sprint 1", DateAt(StartTick), DateAt(MaxTick)),
     work_items |-> items]

HistorySprints ==
    {SprintOf(<<>>)} \cup {SprintOf(<<Item("Closed", <<p>>)>>) : p \in 1..MaxPoints}
    \cup {[sprint_info |-> Window("Sprint 2", DateAt(StartTick), DateAt(MaxTick)),
           work_items |-> <<Item("Active", <<1>>), Item("Done", <<MaxPoints>>)>>],
          [sprint_info |-> NoIteration,
           work_items |-> <<Item("Resolved", <<1>>)>>]}

ForecastRemaining == {Int2Rat(r) : r \in {0, 1, 100, 211}}
ForecastVelocity ==
    {Rat(n, d) : n \in {-5, 0, 1, 2, 3, 5, 10, 21}, d \in {1, 4}}

\* a call without arguments about to be made
Call(name) == [op |-> "call", name |-> name]

\* a history of at most n sprints and one call to make on it
InitHistory(n) ==
    /\ work_items = <<>>
    /\ iteration_data = NoIteration
    /\ now = 0
    /\ calls = NoCalls
    /\ graph = EmptyGraph
    /\ work_items_data = <<>>
    /\ sprints_data \in SeqsUpTo(HistorySprints, n)
    /\ \/ \E remaining_points \in ForecastRemaining :
            \E current_velocity \in ForecastVelocity :
               ret = Pending(<<remaining_points, current_velocity>>)
       \/ ret = Call("calculate_velocity_trends")
       \/ ret = Call("compare_sprints")

InitForecast == InitHistory(MaxSprints)

PredictCompletion ==
    /\ ret.op = "pending"
    /\ ret' = [op |-> "predict_completion",
               args |-> ret.args,
               value |-> predict_completion(sprints_data, now, ret.args[1], ret.args[2])]
    /\ UNCHANGED <<work_items, iteration_data, now, sprints_data, calls, graph, work_items_data>>

CalculateVelocityTrends ==
    /\ ret = Call("calculate_velocity_trends")
    /\ ret' = [op |-> "calculate_velocity_trends",
               value |-> calculate_velocity_trends(sprints_data, now)]
    /\ UNCHANGED <<work_items, iteration_data, now, sprints_data, calls, graph, work_items_data>>

CompareSprints ==
    /\ ret = Call("compare_sprints")
    /\ ret' = [op |-> "compare_sprints",
               value |-> compare_sprints(sprints_data, now)]
    /\ UNCHANGED <<work_items, iteration_data, now, sprints_data, calls, graph, work_items_data>>

NextForecast == PredictCompletion \/ CalculateVelocityTrends \/ CompareSprints

SpecForecast == InitForecast /\ [][NextForecast]_vars

----------------------------------------------------------------------------
(* Both engines: every public operation that returns numbers *)

\* the histories here are the empty one and those of one sprint
InitEngines == Init \/ InitHistory(1)

NextEngines == Next \/ NextForecast

SpecEngines == InitEngines /\ [][NextEngines]_vars

----------------------------------------------------------------------------
(* Threads calling the public operations of the two engines at the same time,
   the clock fixed.  An operation is a loop over the stored list it reads (the
   work items, or the sprints), one element a step, and a last step that
   computes the returned value from what the loop has accumulated; the
   accumulators are local variables, kept here as the elements seen so far. *)

SprintOps ==
    {"calculate_metrics", "generate_burndown_data", "generate_burnup_data",
     "get_work_items_table_data", "generate_ai_summary_context"}
MultiSprintOps == {"calculate_velocity_trends", "compare_sprints", "predict_completion"}
PublicOps == SprintOps \cup MultiSprintOps

\* the value an operation returns on the given engine fields
ResultOf(op, args, items, iter, sprints, today) ==
    CASE op = "calculate_metrics" -> calculate_metrics(items, iter, today)
      [] op = "generate_burndown_data" -> generate_burndown_data(items, iter, today)
      [] op = "generate_burnup_data" -> generate_burnup_data(items, iter, today)
      [] op = "get_work_items_table_data" -> get_work_items_table_data(items)
      [] op = "generate_ai_summary_context" -> generate_ai_summary_context(items, iter, today)
      [] op = "calculate_velocity_trends" -> calculate_velocity_trends(sprints, today)
      [] op = "compare_sprints" -> compare_sprints(sprints, today)
      [] op = "predict_completion" -> predict_completion(sprints, today, args[1], args[2])

\* the loop body keeping the state of the item it handles in lower case
stored_work_items_lowered(items, i) ==
    [items EXCEPT ![i].state = Lower(StateOf(items[i]))]

\* self.work_items after the loop body has handled item i: nothing is assigned
stored_work_items(items, i) == items

\* self.sprints_data after the loop body has handled sprint i
stored_sprints(sprints, i) == sprints

\* the arguments of an operation: predict_completion alone takes some
ArgsOf(op) == IF op = "predict_completion" THEN <<Int2Rat(1), Int2Rat(1)>> ELSE <<>>

InitThreads ==
    /\ work_items \in {<<Item("Closed", <<2>>), Item("New", <<1>>)>>,
                        <<Item("Done", <<1>>)>>}
    /\ iteration_data = Window("Sprint 1", DateAt(StartTick), DateAt(MidSprint + 2 * TicksPerDay))
    /\ now = MidSprint
    /\ sprints_data = <<SprintOf(<<Item("Closed", <<1>>)>>), SprintOf(<<>>)>>
    /\ ret = NoCall
    /\ calls = NoCalls
    /\ graph = EmptyGraph
    /\ work_items_data = <<>>

\* thread t enters an operation (its first, or after the last one returned)
Invoke(t, op) ==
    /\ calls[t].pc \in {"idle", "done"}
    /\ calls' = [calls EXCEPT ![t] = [pc |-> "loop", op |-> op, args |-> ArgsOf(op),
                                      seen |-> <<>>]]
    /\ UNCHANGED <<work_items, iteration_data, now, sprints_data, ret, graph, work_items_data>>

\* one turn of the loop of the operation thread t is in
ReadNext(t) ==
    /\ calls[t].pc = "loop"
    /\ LET i == Len(calls[t].seen) + 1
       IN  IF calls[t].op \in SprintOps
           THEN /\ i <= Len(work_items)
                /\ calls' = [calls EXCEPT ![t].seen = Append(@, work_items[i])]
                /\ work_items' = stored_work_items(work_items, i)
                /\ UNCHANGED sprints_data
           ELSE /\ i <= Len(sprints_data)
                /\ calls' = [calls EXCEPT ![t].seen = Append(@, sprints_data[i])]
                /\ sprints_data' = stored_sprints(sprints_data, i)
                /\ UNCHANGED work_items
    /\ UNCHANGED <<iteration_data, now, ret, graph, work_items_data>>

\* the loop is over: the value is computed and returned to thread t
Finish(t) ==
    /\ calls[t].pc = "loop"
    /\ Len(calls[t].seen) =
          (IF calls[t].op \in SprintOps THEN Len(work_items) ELSE Len(sprints_data))
    /\ calls' = [calls EXCEPT ![t] =
                    [pc |-> "done", op |-> calls[t].op, args |-> calls[t].args,
                     value |-> IF calls[t].op \in SprintOps
                               THEN ResultOf(calls[t].op, calls[t].args, calls[t].seen,
                                             iteration_data, sprints_data, now)
                               ELSE ResultOf(calls[t].op, calls[t].args, work_items,
                                             iteration_data, calls[t].seen, now)]]
    /\ UNCHANGED <<work_items, iteration_data, now, sprints_data, ret, graph, work_items_data>>

NextThreads ==
    \E t \in Threads :
        \/ \E op \in PublicOps : Invoke(t, op)
        \/ ReadNext(t)
        \/ Finish(t)

SpecThreads == InitThreads /\ [][NextThreads]_vars

----------------------------------------------------------------------------
(* The graph builder: add_work_items on a new builder, then get_blocked_items *)

GraphStates == {"Active", "Closed", "Done", "Resolved"}
GraphIds == {1, 2}      \* the work items given to the builder
MissingId == 3          \* a work item that is not given to the builder

\* a relation held by the work item from: to a work item given to the builder,
\* to one that is not, and with a url that names no work item
Links ==
    {[from |-> a, rel |-> r, url |-> WorkItemUrl(b)] :
        a \in GraphIds,
        r \in {HierarchyReverse, HierarchyForward, DependencyForward, DependencyReverse,
                Related},
        b \in GraphIds}
    \cup {[from |-> a, rel |-> DependencyForward, url |-> u] :
            a \in GraphIds, u \in {WorkItemUrl(MissingId), WordUrl, OtherUrl}}

RECURSIVE RelationsOf(_, _, _)
\* the relations of the work item id among links[1..k], in their order
RelationsOf(id, links, k) ==
    IF k = 0 THEN <<>>
    ELSE RelationsOf(id, links, k - 1)
         \o (IF links[k].from = id
             THEN <<[rel |-> links[k].rel, url |-> links[k].url]>> ELSE <<>>)

\* the work items 1 and 2 in the given states, holding the given links
GraphItems(states, links) ==
    [id \in GraphIds |->
        [id |-> id, state |-> states[id], relations |-> RelationsOf(id, links, Len(links))]]

InitGraph ==
    /\ work_items = <<>>
    /\ iteration_data = NoIteration
    /\ now = 0
    /\ sprints_data = <<>>
    /\ calls = NoCalls
    /\ graph = EmptyGraph
    /\ work_items_data = <<>>
    /\ \E states \in [GraphIds -> GraphStates], links \in SeqsUpTo(Links, MaxLinks) :
          ret = Pending(<<GraphItems(states, links)>>)

AddWorkItems ==
    /\ ret.op = "pending"
    /\ LET b == add_work_items([graph |-> graph, work_items_data |-> work_items_data],
                               ret.args[1])
       IN  /\ graph' = b.graph
           /\ work_items_data' = b.work_items_data
    /\ ret' = [op |-> "add_work_items", args |-> ret.args]
    /\ UNCHANGED <<work_items, iteration_data, now, sprints_data, calls>>

GetBlockedItems ==
    /\ ret.op = "add_work_items"
    /\ ret' = [op |-> "get_blocked_items", args |-> ret.args,
               value |-> get_blocked_items(graph, work_items_data)]
    /\ UNCHANGED <<work_items, iteration_data, now, sprints_data, calls, graph,
                   work_items_data>>

NextGraph == AddWorkItems \/ GetBlockedItems

SpecGraph == InitGraph /\ [][NextGraph]_vars

----------------------------------------------------------------------------
(* Properties *)

Returned(op) == ret.op = op
ItemIndices == 1..Len(work_items)

\* a rate, given as a rational, in tenths of a percent
InTenths(x) == (10 * x.n) \div x.d

\* C1: the health status is exactly one of green/yellow/red/unknown, decided by:
\* progress_pct = 0 -> unknown; else completion_rate >= progress_pct -> green;
\* else completion_rate >= 0.7 * progress_pct -> yellow; else red.  At
\* progress_pct = 50: 50 -> green, 35 -> yellow, 34.9 -> red.
C1_HealthRule ==
    Returned("_calculate_health_status") =>
        LET c == InTenths(ret.args[1])
            p == IF "progress_pct" \in DOMAIN ret.args[2]
                 THEN InTenths(ret.args[2].progress_pct) ELSE 0
        IN  /\ ret.value \in {"green", "yellow", "red", "unknown"}
            /\ ret.value = "unknown" <=> p = 0
            /\ ret.value = "green" <=> (p # 0 /\ c >= p)
            /\ ret.value = "yellow" <=> (p # 0 /\ c < p /\ 10 * c >= 7 * p)
            /\ ret.value = "red" <=> (p # 0 /\ 10 * c < 7 * p)
            /\ (p = 500 /\ c = 500) => ret.value = "green"
            /\ (p = 500 /\ c = 350) => ret.value = "yellow"
            /\ (p = 500 /\ c = 349) => ret.value = "red"

C1_Witness ==
    /\ Returned("_calculate_health_status")
    /\ ret.args = <<Rat(349, 10), [progress_pct |-> Int2Rat(50)]>>
    /\ ret.value = "red"

\* C2: for a non-empty collection (points are non-negative),
\* 0 <= completed_points <= total_points, remaining_points = total - completed >= 0
\* and 0 <= closed_items <= total_items.
C2_CompletedWithinTotal ==
    (Returned("calculate_metrics") /\ Len(work_items) > 0) =>
        /\ 0 <= ret.value.completed_points
        /\ ret.value.completed_points <= ret.value.total_points
        /\ ret.value.remaining_points = ret.value.total_points - ret.value.completed_points
        /\ ret.value.remaining_points >= 0
        /\ 0 <= ret.value.closed_items
        /\ ret.value.closed_items <= ret.value.total_items

C2_Witness ==
    /\ Returned("calculate_metrics")
    /\ Len(work_items) = 2
    /\ 0 < ret.value.completed_points
    /\ ret.value.completed_points < ret.value.total_points
    /\ ret.value.closed_items = 1

\* the spellings, among the states of the model, that lower-case to closed, done
\* or resolved
DoneSpellings == {"Closed", "closed", "CLOSED", "Done", "Resolved"}

RECURSIVE PointsIn(_, _)
\* the story points of the items of index set I
PointsIn(items, I) ==
    IF I = {} THEN 0
    ELSE LET i == CHOOSE j \in I : TRUE
         IN  (IF items[i].points = <<>> THEN 0 ELSE items[i].points[1])
             + PointsIn(items, I \ {i})

\* C3: an item's story points count as completed iff its state is, whatever the
\* case, closed, done or resolved; a "Completed" item adds to total_points only.
C3_CompletedStates ==
    (Returned("calculate_metrics") /\ Len(work_items) > 0) =>
        /\ ret.value.total_points = PointsIn(work_items, ItemIndices)
        /\ ret.value.completed_points =
              PointsIn(work_items, {i \in ItemIndices : work_items[i].state \in DoneSpellings})
        /\ \A i \in ItemIndices :
              work_items[i].state = "Completed" =>
                 ret.value.total_points - ret.value.completed_points
                    >= PointsIn(work_items, {i})

C3_Witness ==
    /\ Returned("calculate_metrics")
    /\ Len(work_items) = 2
    /\ work_items[1].state = "Completed" /\ work_items[1].points = <<2>>
    /\ work_items[2].state = "CLOSED" /\ work_items[2].points = <<1>>
    /\ ret.value.total_points = 3
    /\ ret.value.completed_points = 1

\* C4: on an empty collection calculate_metrics returns the canonical empty
\* metrics (every count, point total and rate 0, an all-zero timeline) with
\* health_status unknown, whatever the iteration window and the clock.
C4_EmptyMetrics ==
    (Returned("calculate_metrics") /\ work_items = <<>>) =>
        ret.value =
            [total_items |-> 0, closed_items |-> 0, total_points |-> 0,
             completed_points |-> 0, remaining_points |-> 0,
             completion_rate |-> [n |-> 0, d |-> 1],
             item_completion_rate |-> [n |-> 0, d |-> 1],
             state_counts |-> <<>>, type_counts |-> <<>>, assignee_counts |-> <<>>,
             sprint_progress |-> [days_elapsed |-> 0, days_remaining |-> 0,
                                  days_total |-> 0, progress_pct |-> [n |-> 0, d |-> 1]],
             health_status |-> "unknown"]

\* an empty sprint whose window is valid and already started
C4_Witness ==
    /\ Returned("calculate_metrics")
    /\ work_items = <<>>
    /\ iteration_data.kind = "window"
    /\ iteration_data.startDate.kind = "ts" /\ iteration_data.finishDate.kind = "ts"
    /\ iteration_data.startDate.tick + TicksPerDay <= now
    /\ now < iteration_data.finishDate.tick
    /\ ret.value.health_status = "unknown"

\* the timeline reported by the metrics of the engine at the present clock, and
\* the point totals of its work items
Timeline == calculate_metrics(work_items, iteration_data, now).sprint_progress
DaysTotal == Timeline.days_total
DaysElapsed == Timeline.days_elapsed
TotalPoints == PointsIn(work_items, ItemIndices)
CompletedPoints ==
    PointsIn(work_items, {i \in ItemIndices : work_items[i].state \in DoneSpellings})

\* C5: whenever generate_burndown_data returns data, the ideal and the actual
\* series both have days_total + 1 points, whatever days_elapsed is.
C5_EqualShape ==
    (Returned("generate_burndown_data") /\ ret.value[1] # <<>> /\ ret.value[2] # <<>>) =>
        /\ Len(ret.value[1]) = DaysTotal + 1
        /\ Len(ret.value[2]) = DaysTotal + 1

\* C6: for days_total > 0 the ideal series starts at total_points, ends at 0 on
\* day days_total and never increases from one day to the next.
C6_IdealBurndown ==
    (Returned("generate_burndown_data") /\ DaysTotal > 0) =>
        LET ideal == ret.value[1]
        IN  /\ Len(ideal) = DaysTotal + 1
            /\ ideal[1] = [n |-> TotalPoints, d |-> 1]
            /\ ideal[DaysTotal + 1] = [n |-> 0, d |-> 1]
            /\ \A d \in 0..(DaysTotal - 1) :
                  ideal[d + 2].n * ideal[d + 1].d <= ideal[d + 1].n * ideal[d + 2].d

C6_Witness ==
    /\ Returned("generate_burndown_data")
    /\ DaysTotal = 3
    /\ TotalPoints = 2
    /\ ret.value[1] = <<Rat(2, 1), Rat(4, 3), Rat(2, 3), Rat(0, 1)>>

\* the value max(0, total_points - completed_points * d / days_elapsed)
Burned(d) ==
    LET x == TotalPoints * DaysElapsed - CompletedPoints * d
    IN  IF x > 0 THEN Rat(x, DaysElapsed) ELSE [n |-> 0, d |-> 1]

\* C7: with 0 < days_elapsed, actual[d] = max(0, total_points - completed_points
\* * d / days_elapsed) for 0 <= d <= days_elapsed (so actual[0] = total_points
\* and actual[days_elapsed] = remaining_points) and actual[d] = max(0, total_points
\* - (completed_points / days_elapsed) * d) for days_elapsed < d <= days_total:
\* only the current totals enter the series.
C7_ActualBurndown ==
    (Returned("generate_burndown_data") /\ DaysElapsed > 0 /\ DaysTotal # 0) =>
        LET actual == ret.value[2]
        IN  /\ Len(actual) = Max(DaysElapsed, DaysTotal) + 1
            /\ \A d \in 0..Max(DaysElapsed, DaysTotal) : actual[d + 1] = Burned(d)
            /\ actual[1] = [n |-> TotalPoints, d |-> 1]
            /\ actual[DaysElapsed + 1] = [n |-> TotalPoints - CompletedPoints, d |-> 1]

C7_Witness ==
    /\ Returned("generate_burndown_data")
    /\ DaysElapsed = 1 /\ DaysTotal = 3
    /\ TotalPoints = 3 /\ CompletedPoints = 1
    /\ ret.value[2] = <<Rat(3, 1), Rat(2, 1), Rat(1, 1), Rat(0, 1)>>

\* C8 as stated: for days_total > 0, total_scope is total_points on each of the
\* days_total + 1 days, and completed_work starts at 0, is completed_points on
\* day days_elapsed, never decreases and never exceeds total_points.
C8_BurnupAsStated ==
    (Returned("generate_burnup_data") /\ DaysTotal > 0) =>
        LET total_scope == ret.value[1]
            completed_work == ret.value[2]
        IN  /\ total_scope = [i \in 1..(DaysTotal + 1) |-> [n |-> TotalPoints, d |-> 1]]
            /\ completed_work[1] = [n |-> 0, d |-> 1]
            /\ completed_work[DaysElapsed + 1] = [n |-> CompletedPoints, d |-> 1]
            /\ \A i \in 1..(Len(completed_work) - 1) :
                  completed_work[i].n * completed_work[i + 1].d
                     <= completed_work[i + 1].n * completed_work[i].d
            /\ \A i \in 1..Len(completed_work) :
                  completed_work[i].n <= TotalPoints * completed_work[i].d

\* C8, amended: as stated, but completed_work is completed_points on day
\* days_elapsed only when days_elapsed > 0 (on day 0 of the sprint it is 0).
C8_Burnup ==
    (Returned("generate_burnup_data") /\ DaysTotal > 0) =>
        LET total_scope == ret.value[1]
            completed_work == ret.value[2]
        IN  /\ total_scope = [i \in 1..(DaysTotal + 1) |-> [n |-> TotalPoints, d |-> 1]]
            /\ completed_work[1] = [n |-> 0, d |-> 1]
            /\ DaysElapsed > 0 =>
                  completed_work[DaysElapsed + 1] = [n |-> CompletedPoints, d |-> 1]
            /\ \A i \in 1..(Len(completed_work) - 1) :
                  completed_work[i].n * completed_work[i + 1].d
                     <= completed_work[i + 1].n * completed_work[i].d
            /\ \A i \in 1..Len(completed_work) :
                  completed_work[i].n <= TotalPoints * completed_work[i].d

\* a projection that reaches the cap: 2 of 3 points done after 1 of 3 days
C8_Witness ==
    /\ Returned("generate_burnup_data")
    /\ DaysElapsed = 1 /\ DaysTotal = 3
    /\ TotalPoints = 3 /\ CompletedPoints = 2
    /\ ret.value[2] = <<Rat(0, 1), Rat(2, 1), Rat(3, 1), Rat(3, 1)>>

\* the sum of entries lo..hi of a velocity history
RECURSIVE Total(_, _, _)
Total(v, lo, hi) == IF hi < lo THEN 0 ELSE v[lo] + Total(v, lo + 1, hi)

Min(a, b) == IF a <= b THEN a ELSE b

\* C9: fewer than 2 velocities are stable; otherwise, with recent_avg the mean
\* of the last min(3, n) and older_avg the mean of all but the last 3 (n > 3) or
\* velocities[0], the trend is increasing if recent_avg > 1.1 * older_avg,
\* decreasing if recent_avg < 0.9 * older_avg, stable otherwise; and
\* [10,10,10,10,20,20,20] is increasing.
C9_Trend ==
    Returned("_calculate_trend") =>
        LET v == ret.args
            n == Len(v)
            k == Min(3, n)                               \* size of the recent window
            recent == Total(v, n - k + 1, n)             \* recent_avg = recent / k
            m == IF n > 3 THEN n - 3 ELSE 1              \* size of the older window
            older == IF n > 3 THEN Total(v, 1, n - 3) ELSE v[1]
        IN  /\ n < 2 => ret.value = "stable"
            /\ n >= 2 =>
                 /\ ret.value = "increasing" <=> 10 * recent * m > 11 * older * k
                 /\ ret.value = "decreasing" <=> 10 * recent * m < 9 * older * k
                 /\ ret.value = "stable" <=>
                       /\ 10 * recent * m <= 11 * older * k
                       /\ 10 * recent * m >= 9 * older * k
            /\ v = <<10, 10, 10, 10, 20, 20, 20>> => ret.value = "increasing"

C9_Witness ==
    /\ Returned("_calculate_trend")
    /\ ret.args = <<10, 10, 10, 10, 20, 20, 20>>
    /\ ret.value = "increasing"

\* C10 as stated: for a velocity other than 0 the result's days_needed is
\* remaining_points / current_velocity and can_complete is true exactly when
\* the result's days_needed is at most 10.
C10_ForecastAsStated ==
    (Returned("predict_completion") /\ ret.args[2].n # 0) =>
        /\ ret.value.days_needed.n * ret.args[2].n * ret.args[1].d
              = ret.args[1].n * ret.args[2].d * ret.value.days_needed.d
        /\ ret.value.can_complete <=> ret.value.days_needed.n <= 10 * ret.value.days_needed.d

\* C10, amended: for a velocity other than 0 the result's days_needed is
\* remaining_points / current_velocity rounded to one decimal, and can_complete
\* is true exactly when the unrounded quotient is at most 10 (a constant);
\* predict_completion(0, 5) gives days_needed 0 and can_complete true.
C10_Forecast ==
    (Returned("predict_completion") /\ ret.args[2].n # 0) =>
        LET r == ret.args[1]
            c == ret.args[2]
            sgn == IF c.n < 0 THEN -1 ELSE 1
            qn == sgn * r.n * c.d              \* the quotient r / c is qn / qd, qd > 0
            qd == sgn * r.d * c.n
            t == ret.value.days_needed
        IN  /\ 10 % t.d = 0
            /\ 2 * Abs(10 * t.n * qd - 10 * qn * t.d) <= qd * t.d
            /\ ret.value.can_complete <=> qn <= 10 * qd
            /\ (r = [n |-> 0, d |-> 1] /\ c = [n |-> 5, d |-> 1]) =>
                  (t = [n |-> 0, d |-> 1] /\ ret.value.can_complete)

\* 211 points at 21 points a day: 10.047... days, reported as 10.0 and not
\* completable
C10_Witness ==
    /\ Returned("predict_completion")
    /\ ret.args = <<[n |-> 211, d |-> 1], [n |-> 21, d |-> 1]>>
    /\ ret.value.days_needed = [n |-> 10, d |-> 1]
    /\ ~ret.value.can_complete

\* C11: predict_completion with a current velocity of 0 returns, whatever the
\* remaining points and the sprint history, days_needed = +infinity,
\* can_complete = false, confidence = low and the message "No velocity
\* detected yet"; nothing is divided.
C11_ZeroVelocity ==
    (Returned("predict_completion") /\ ret.args[2].n = 0) =>
        ret.value = [days_needed |-> [n |-> 1, d |-> 0],
                     can_complete |-> FALSE,
                     confidence |-> "low",
                     message |-> <<"No velocity detected yet">>]

\* 100 points left, nothing burned yet, after a sprint that completed points
C11_Witness ==
    /\ Returned("predict_completion")
    /\ ret.args = <<[n |-> 100, d |-> 1], [n |-> 0, d |-> 1]>>
    /\ Len(sprints_data) > 0
    /\ calculate_velocity_trends(sprints_data, now).average_velocity.n > 0
    /\ ret.value.days_needed = [n |-> 1, d |-> 0]
    /\ ~ret.value.can_complete

\* the completed points of each sprint of the history, and the tenth nearest
\* to a / b (ties to the even tenth)
SprintPoints ==
    [i \in 1..Len(sprints_data) |->
        PointsIn(sprints_data[i].work_items,
                 {j \in 1..Len(sprints_data[i].work_items) :
                     sprints_data[i].work_items[j].state \in DoneSpellings})]
HistoryPoints == Total(SprintPoints, 1, Len(sprints_data))
NearestTenth(a, b) ==
    CHOOSE t \in 0..(10 * a) :
        \/ 2 * Abs(t * b - 10 * a) < b
        \/ 2 * Abs(t * b - 10 * a) = b /\ t % 2 = 0
\* the confidence band of |c - a| / a for the average a = an / ad
BandOf(c, an, ad) ==
    IF an = 0 THEN "low"
    ELSE LET dev == Abs(c.n * ad - an * c.d)
             base == c.d * an
         IN  IF 10 * dev < 2 * base THEN "high"
             ELSE IF 10 * dev < 4 * base THEN "medium"
             ELSE "low"

\* C12 as stated: for a velocity other than 0 the confidence is the band of
\* |current_velocity - average_velocity| / average_velocity, average_velocity
\* being the mean of the sprints' completed points (variance 1 when it is 0):
\* below 0.2 high, below 0.4 medium, low otherwise.
C12_ConfidenceAsStated ==
    (Returned("predict_completion") /\ ret.args[2].n # 0) =>
        ret.value.confidence =
            (IF Len(sprints_data) = 0 THEN "low"
             ELSE BandOf(ret.args[2], HistoryPoints, Len(sprints_data)))

\* C12, amended: for a velocity other than 0 the confidence is the band of
\* |current_velocity - average_velocity| / average_velocity, average_velocity
\* being the mean of the sprints' completed points rounded to one decimal
\* (variance 1 when that is 0): below 0.2 high, below 0.4 medium, low
\* otherwise.
C12_Confidence ==
    (Returned("predict_completion") /\ ret.args[2].n # 0) =>
        ret.value.confidence =
            (IF Len(sprints_data) = 0 THEN "low"
             ELSE BandOf(ret.args[2],
                         NearestTenth(HistoryPoints, Len(sprints_data)), 10))

\* three sprints completing 1 point between them (mean 0.333..., reported
\* 0.3) and a velocity of 0.25: variance 0.1666... of the rounded average
C12_Witness ==
    /\ Returned("predict_completion")
    /\ Len(sprints_data) = 3
    /\ HistoryPoints = 1
    /\ ret.args[2] = [n |-> 1, d |-> 4]
    /\ ret.value.confidence = "high"

\* the ratios of a series, none of them the outcome of a division by zero
NoFault(series) == \A i \in 1..Len(series) : series[i] # DivFault

\* C13: no operation divides by zero, every ratio has its default instead:
\* total_points = 0 gives completion_rate 0; days_total = 0 gives progress_pct
\* 0 and the burndown and burnup ([], []); days_elapsed = 0 gives the series
\* without extrapolation (the single day-0 entry); an empty sprint sequence
\* gives average_velocity 0; average_velocity = 0 gives a variance of 1, that
\* is a low confidence.
C13_NoZeroDivision ==
    /\ Returned("calculate_metrics") =>
          /\ ret.value.completion_rate # DivFault
          /\ ret.value.item_completion_rate # DivFault
          /\ ret.value.sprint_progress.progress_pct # DivFault
          /\ ret.value.total_points = 0 => ret.value.completion_rate = [n |-> 0, d |-> 1]
          /\ ret.value.sprint_progress.days_total = 0 =>
                ret.value.sprint_progress.progress_pct = [n |-> 0, d |-> 1]
    /\ (Returned("generate_burndown_data") \/ Returned("generate_burnup_data")) =>
          /\ NoFault(ret.value[1]) /\ NoFault(ret.value[2])
          /\ DaysTotal = 0 => ret.value = <<<<>>, <<>>>>
    /\ (Returned("generate_burndown_data") /\ DaysTotal # 0 /\ DaysElapsed = 0) =>
          ret.value[2] = <<[n |-> TotalPoints, d |-> 1]>>
    /\ (Returned("generate_burnup_data") /\ DaysTotal # 0 /\ DaysElapsed = 0) =>
          ret.value[2] = <<[n |-> 0, d |-> 1]>>
    /\ Returned("calculate_velocity_trends") =>
          /\ ret.value.average_velocity # DivFault
          /\ Len(sprints_data) = 0 => ret.value.average_velocity = [n |-> 0, d |-> 1]
    /\ Returned("predict_completion") =>
          /\ ret.value.days_needed # DivFault
          /\ (ret.args[2].n # 0 /\ HistoryPoints = 0) => ret.value.confidence = "low"

\* a sprint of items without story points, its window running: rate 0
C13_Witness ==
    /\ Returned("calculate_metrics")
    /\ Len(work_items) > 0
    /\ ret.value.total_points = 0
    /\ ret.value.completion_rate = [n |-> 0, d |-> 1]
    /\ ret.value.sprint_progress.days_total > 0

\* the iteration window is absent, lacks a date, or has a date that does not parse
BrokenWindow ==
    \/ iteration_data.kind = "none"
    \/ iteration_data.startDate.kind \in {"absent", "bad"}
    \/ iteration_data.finishDate.kind \in {"absent", "bad"}

\* C14: with an iteration window that is absent, lacks its start or end date,
\* or carries a date that cannot be parsed, calculate_metrics returns the
\* all-zero timeline (days_elapsed, days_remaining, days_total, progress_pct
\* all 0) and the health status unknown.
C14_BrokenWindow ==
    (Returned("calculate_metrics") /\ BrokenWindow) =>
        /\ ret.value.sprint_progress =
              [days_elapsed |-> 0, days_remaining |-> 0, days_total |-> 0,
               progress_pct |-> [n |-> 0, d |-> 1]]
        /\ ret.value.health_status = "unknown"

\* a sprint with completed points whose end date does not parse, asked for
\* its metrics after the start date
C14_Witness ==
    /\ Returned("calculate_metrics")
    /\ iteration_data.kind = "window"
    /\ iteration_data.startDate.kind = "ts"
    /\ iteration_data.finishDate.kind = "bad"
    /\ now > iteration_data.startDate.tick + TicksPerDay
    /\ ret.value.completed_points > 0
    /\ ret.value.sprint_progress.days_total = 0
    /\ ret.value.health_status = "unknown"

\* both dates of the window parse and the start is later than the end
InvertedWindow ==
    /\ iteration_data.kind = "window"
    /\ iteration_data.startDate.kind = "ts"
    /\ iteration_data.finishDate.kind = "ts"
    /\ iteration_data.startDate.tick > iteration_data.finishDate.tick

\* C15: for a window whose start date is later than its end date the timeline
\* reports days_total = 0 and progress_pct = 0, the health status is unknown,
\* and the burndown and the burnup are ([], []).
C15_InvertedWindow ==
    /\ (Returned("calculate_metrics") /\ InvertedWindow) =>
          /\ ret.value.sprint_progress.days_total = 0
          /\ ret.value.sprint_progress.progress_pct = [n |-> 0, d |-> 1]
          /\ ret.value.health_status = "unknown"
    /\ ((Returned("generate_burndown_data") \/ Returned("generate_burnup_data"))
            /\ InvertedWindow) =>
          ret.value = <<<<>>, <<>>>>

\* the whole days in a span of x ticks (x may be negative)
WholeDays(x) ==
    CHOOSE k \in -(MaxTick + 1)..(MaxTick + 1) :
        k * TicksPerDay <= x /\ x < (k + 1) * TicksPerDay

\* both dates of the window parse and the start is not later than the end
ValidWindow ==
    /\ iteration_data.kind = "window"
    /\ iteration_data.startDate.kind = "ts"
    /\ iteration_data.finishDate.kind = "ts"
    /\ iteration_data.startDate.tick <= iteration_data.finishDate.tick

\* C16: for a window with both dates valid, days_total is the whole days from
\* start to end, days_elapsed is max(0, whole days from start to now),
\* days_remaining is max(0, whole days from now to end), and progress_pct is
\* days_elapsed / days_total * 100 rounded to one decimal (0 when days_total
\* is 0); days_elapsed and days_remaining are never negative.
C16_Timeline ==
    (Returned("calculate_metrics") /\ Len(work_items) > 0 /\ ValidWindow) =>
        LET p == ret.value.sprint_progress
            start == iteration_data.startDate.tick
            end == iteration_data.finishDate.tick
            t == InTenths(p.progress_pct)
        IN  /\ p.days_total = WholeDays(end - start)
            /\ p.days_elapsed = Max(0, WholeDays(now - start))
            /\ p.days_remaining = Max(0, WholeDays(end - now))
            /\ p.days_elapsed >= 0 /\ p.days_remaining >= 0
            /\ 10 % p.progress_pct.d = 0
            /\ IF p.days_total = 0 THEN t = 0
               ELSE 2 * Abs(t * p.days_total - 1000 * p.days_elapsed) <= p.days_total

\* a one-day sprint asked for its metrics three days after its start: no day
\* remains and the progress is 300 percent
C16_Witness ==
    /\ Returned("calculate_metrics")
    /\ ValidWindow
    /\ ret.value.sprint_progress.days_total = 1
    /\ ret.value.sprint_progress.days_elapsed = 3
    /\ ret.value.sprint_progress.days_remaining = 0
    /\ ret.value.sprint_progress.progress_pct = [n |-> 300, d |-> 1]

\* the four state buckets that have a name of their own
NamedBuckets == {"New", "Active", "Resolved", "Closed"}

\* C17: every work item increments exactly one of the five state buckets: the
\* bucket New, Active, Resolved or Closed when its state is exactly that
\* string, Other in every other case ("In Review", "closed" and "Done"
\* included).
C17_StateBuckets ==
    (Returned("calculate_metrics") /\ Len(work_items) > 0) =>
        LET counts == ret.value.state_counts
        IN  /\ DOMAIN counts = NamedBuckets \cup {"Other"}
            /\ \A b \in NamedBuckets :
                  counts[b] = Cardinality({i \in ItemIndices : work_items[i].state = b})
            /\ counts["Other"] =
                  Cardinality({i \in ItemIndices : work_items[i].state \notin NamedBuckets})
            /\ counts["New"] + counts["Active"] + counts["Resolved"] + counts["Closed"]
                  + counts["Other"] = Len(work_items)

\* one item in state "closed" and one in state "In Review": both in Other
C17_Witness ==
    /\ Returned("calculate_metrics")
    /\ Len(work_items) = 2
    /\ work_items[1].state = "closed"
    /\ work_items[2].state = "In Review"
    /\ ret.value.state_counts["Other"] = 2
    /\ ret.value.state_counts["Closed"] = 0

\* C18: closed_items is the sum of the Closed and the Resolved buckets (items
\* in state "Done" or "closed" count toward completed_points, not toward
\* closed_items), and item_completion_rate is closed_items / total_items * 100
\* rounded to one decimal.
C18_ClosedItems ==
    (Returned("calculate_metrics") /\ Len(work_items) > 0) =>
        LET closed == Cardinality({i \in ItemIndices :
                                      work_items[i].state \in {"Closed", "Resolved"}})
            t == InTenths(ret.value.item_completion_rate)
        IN  /\ ret.value.closed_items = closed
            /\ ret.value.closed_items
                  = ret.value.state_counts["Closed"] + ret.value.state_counts["Resolved"]
            /\ ret.value.total_items = Len(work_items)
            /\ 10 % ret.value.item_completion_rate.d = 0
            /\ 2 * Abs(t * Len(work_items) - 1000 * closed) <= Len(work_items)

\* a Done item with points beside a Closed item: the points of both are
\* completed, one item is closed, the item rate is 50
C18_Witness ==
    /\ Returned("calculate_metrics")
    /\ Len(work_items) = 2
    /\ work_items[1].state = "Done" /\ work_items[1].points = <<2>>
    /\ work_items[2].state = "Closed" /\ work_items[2].points = <<1>>
    /\ ret.value.completed_points = 3
    /\ ret.value.closed_items = 1
    /\ ret.value.item_completion_rate = [n |-> 50, d |-> 1]

\* the metrics a single-sprint engine built from sprint i of the history reports
SingleSprint(i) ==
    calculate_metrics(sprints_data[i].work_items, sprints_data[i].sprint_info, now)
\* the name the i-th sprint is listed under
ListedName(i) ==
    IF sprints_data[i].sprint_info.name = Absent
    THEN "Unknown" ELSE sprints_data[i].sprint_info.name

\* C19: for a history of n sprints compare_sprints returns six arrays of
\* length n and calculate_velocity_trends returns sprint_names and velocities
\* of length n, entry i of each being the value of a single-sprint engine
\* built from the i-th sprint: nothing is sorted, dropped, merged or moved.
C19_SprintOrder ==
    LET n == Len(sprints_data)
    IN  /\ Returned("compare_sprints") =>
              /\ DOMAIN ret.value = {"sprint_names", "total_points", "completed_points",
                                     "completion_rates", "total_items", "closed_items"}
              /\ \A f \in DOMAIN ret.value : Len(ret.value[f]) = n
              /\ \A i \in 1..n :
                    /\ ret.value.sprint_names[i] = ListedName(i)
                    /\ ret.value.total_points[i] = SingleSprint(i).total_points
                    /\ ret.value.completed_points[i] = SingleSprint(i).completed_points
                    /\ ret.value.completed_points[i] = SprintPoints[i]
                    /\ ret.value.completion_rates[i] = SingleSprint(i).completion_rate
                    /\ ret.value.total_items[i] = Len(sprints_data[i].work_items)
                    /\ ret.value.closed_items[i] = SingleSprint(i).closed_items
        /\ Returned("calculate_velocity_trends") =>
              /\ Len(ret.value.sprint_names) = n
              /\ Len(ret.value.velocities) = n
              /\ \A i \in 1..n :
                    /\ ret.value.sprint_names[i] = ListedName(i)
                    /\ ret.value.velocities[i] = SingleSprint(i).completed_points
                    /\ ret.value.velocities[i] = SprintPoints[i]

\* three different sprints, neither in the order of their names nor of their
\* points, compared
C19_Witness ==
    /\ Returned("compare_sprints")
    /\ Len(sprints_data) = 3
    /\ ret.value.sprint_names = <<"Sprint 2", "Unknown", "Sprint 1">>
    /\ ret.value.completed_points = <<2, 1, 0>>
    /\ ret.value.total_points = <<3, 1, 0>>
    /\ ret.value.total_items = <<2, 1, 0>>

\* every value computed by a thread is the value the operation returns when
\* it runs alone on the engine
AsAlone ==
    \A t \in Threads :
        calls[t].pc = "done" =>
            calls[t].value = ResultOf(calls[t].op, calls[t].args, work_items,
                                      iteration_data, sprints_data, now)

\* C20: no public operation writes to the stored work items, the iteration
\* data or the sprint list, and with the clock fixed every invocation, however
\* it is interleaved with the others, returns what it returns when run alone.
C20_Isolation ==
    /\ []AsAlone
    /\ [][/\ work_items' = work_items
          /\ iteration_data' = iteration_data
          /\ sprints_data' = sprints_data]_vars

\* one thread has computed the metrics while another is halfway through the
\* work items for the burndown
C20_Witness ==
    /\ calls[1].pc = "done" /\ calls[1].op = "calculate_metrics"
    /\ calls[2].pc = "loop" /\ calls[2].op = "generate_burndown_data"
    /\ Len(calls[2].seen) = 1
    /\ Len(work_items) = 2
    /\ calls[1].value.total_points = 3

\* C21: get_work_items_table_data returns one row per work item, in the order
\* of the work items (row i is the projection of item i, equal items giving
\* equal rows), a field the item lacks replaced by its default: assignee
\* Unassigned, story points 0.
C21_TableRows ==
    Returned("get_work_items_table_data") =>
        /\ Len(ret.value) = Len(work_items)
        /\ \A i \in ItemIndices :
              LET wi == work_items[i]
                  row == ret.value[i]
              IN  /\ row.State = (IF wi.state = Absent THEN "Unknown" ELSE wi.state)
                  /\ row.Type = (IF wi.type = Absent THEN "Unknown" ELSE wi.type)
                  /\ row.StoryPoints = (IF wi.points = <<>> THEN 0 ELSE wi.points[1])
                  /\ row.AssignedTo =
                        (IF wi.assignee.kind = "dict" /\ wi.assignee.displayName # Absent
                         THEN wi.assignee.displayName ELSE "Unassigned")
                  /\ "id" \in DOMAIN wi =>
                        (row.ID = wi.id /\ row.Title = wi.title /\ row.Priority = wi.priority)
                  /\ "id" \notin DOMAIN wi =>
                        (row.ID = "None" /\ row.Title = "Untitled" /\ row.Priority = "N/A")

\* twice the same item without assignee and points: two equal rows on their
\* defaults
C21_Witness ==
    /\ Returned("get_work_items_table_data")
    /\ Len(work_items) = 2
    /\ work_items[1] = work_items[2]
    /\ work_items[1].assignee.kind = "absent"
    /\ Len(ret.value) = 2
    /\ ret.value[1] = ret.value[2]
    /\ ret.value[2].AssignedTo = "Unassigned"
    /\ ret.value[2].StoryPoints = 0

\* the lines of the summary context returned
Lines == {ret.value[k] : k \in 1..Len(ret.value)}
\* the work items in state New, and those in state Closed or Resolved
NewItems == Cardinality({i \in ItemIndices : work_items[i].state = "New"})
ClosedItems == Cardinality({i \in ItemIndices : work_items[i].state \in {"Closed", "Resolved"}})

\* C22: the summary context reports values of the calculate_metrics result
\* only; its risk section has the "significantly behind schedule" line exactly
\* when the health status is red, the "slightly behind schedule" line exactly
\* when it is yellow (never both), and the warning about New items exactly
\* when the New count is strictly greater than closed_items.
C22_SummaryContext ==
    Returned("generate_ai_summary_context") =>
        LET m == calculate_metrics(work_items, iteration_data, now)
            red == <<"- Sprint is significantly behind schedule">> \in Lines
            yellow == <<"- Sprint is slightly behind schedule">> \in Lines
            new == <<"- Many work items are still in 'New' state">> \in Lines
        IN  /\ red <=> m.health_status = "red"
            /\ yellow <=> m.health_status = "yellow"
            /\ ~(red /\ yellow)
            /\ new <=> NewItems > ClosedItems
            /\ ret.value[2][2] = m.total_items
            /\ ret.value[3][2] = m.closed_items
            /\ ret.value[4][2] = m.total_points
            /\ ret.value[5][2] = m.completed_points
            /\ ret.value[6][2] = m.completion_rate
            /\ ret.value[7][2] = Upper(m.health_status)
            /\ ret.value[9][2] = m.sprint_progress.days_elapsed
            /\ ret.value[10][2] = m.sprint_progress.days_remaining
            /\ ret.value[11][2] = m.sprint_progress.progress_pct
            /\ \A l \in Lines :
                  Len(l) = 3 => \/ l[2] \in DOMAIN m.state_counts /\ l[3] = m.state_counts[l[2]]
                                \/ l[2] \in DOMAIN m.type_counts /\ l[3] = m.type_counts[l[2]]

\* a red sprint with one New item and one Closed item: the schedule line and
\* no warning about New items
C22_Witness ==
    /\ Returned("generate_ai_summary_context")
    /\ NewItems = 1 /\ ClosedItems = 1
    /\ <<"- Sprint is significantly behind schedule">> \in Lines
    /\ <<"- Many work items are still in 'New' state">> \notin Lines

\* the health rule on a completion rate of c tenths and a progress of p tenths
\* of a percent
RuleOnTenths(c, p) ==
    IF p = 0 THEN "unknown"
    ELSE IF c >= p THEN "green"
    ELSE IF 10 * c >= 7 * p THEN "yellow"
    ELSE "red"

\* C23: the health_status of a metrics object is the health rule applied to
\* the completion_rate and the sprint_progress.progress_pct of that same
\* object, the values rounded to one decimal.
C23_HealthOfReported ==
    (Returned("calculate_metrics") /\ Len(work_items) > 0) =>
        ret.value.health_status =
            RuleOnTenths(InTenths(ret.value.completion_rate),
                         InTenths(ret.value.sprint_progress.progress_pct))

\* the health status a calculate_metrics call made now reports, and its place
\* in the order unknown, green, yellow, red
HealthNow == calculate_metrics(work_items, iteration_data, now).health_status
Severity(h) ==
    CASE h = "unknown" -> 0 [] h = "green" -> 1 [] h = "yellow" -> 2 [] h = "red" -> 3

\* C24: with the work items and the iteration window fixed, the health status
\* reported by calculate_metrics never improves as the clock advances: after
\* unknown it only moves along green, yellow, red.
C24_HealthNeverImproves ==
    [][now' > now =>
          Severity(calculate_metrics(work_items', iteration_data', now').health_status)
             >= Severity(HealthNow)]_vars

\* a sprint reported red that was green on its first day
C24_Witness ==
    /\ Returned("calculate_metrics")
    /\ ValidWindow
    /\ ret.value.health_status = "red"
    /\ now > StartTick + TicksPerDay
    /\ calculate_metrics(work_items, iteration_data, StartTick + TicksPerDay).health_status
          = "green"

\* the metrics a call made now reports
MetricsNow == calculate_metrics(work_items, iteration_data, now)

\* C25: with the clock and the set of work items fixed, changing one item from
\* a state that is not done to Closed never decreases completed_points,
\* completion_rate, closed_items or item_completion_rate, leaves total_points
\* and total_items unchanged, and never worsens the health status.
C25_ClosingHelps ==
    ret.op = "__init__" =>
        LET before == calculate_metrics([work_items EXCEPT ![ret.closed].state = ret.was],
                                        iteration_data, now)
            after == MetricsNow
        IN  /\ ret.was \notin DoneSpellings
            /\ work_items[ret.closed].state = "Closed"
            /\ after.completed_points >= before.completed_points
            /\ after.completion_rate.n * before.completion_rate.d
                  >= before.completion_rate.n * after.completion_rate.d
            /\ after.closed_items >= before.closed_items
            /\ after.item_completion_rate.n * before.item_completion_rate.d
                  >= before.item_completion_rate.n * after.item_completion_rate.d
            /\ after.total_points = before.total_points
            /\ after.total_items = before.total_items
            /\ before.health_status # "unknown" =>
                  /\ after.health_status # "unknown"
                  /\ Severity(after.health_status) <= Severity(before.health_status)
            /\ before.health_status = "unknown" => after.health_status = "unknown"

\* an item with points was closed and the sprint, red before, is green
C25_Witness ==
    /\ ret.op = "__init__"
    /\ work_items[ret.closed].points # <<>>
    /\ MetricsNow.health_status = "green"
    /\ calculate_metrics([work_items EXCEPT ![ret.closed].state = ret.was],
                         iteration_data, now).health_status = "red"

\* C26: burnup mirrors burndown: for the same work items, window and clock,
\* the two actual series have the same days and, on every day d of them,
\* burndown actual[d] + burnup completed_work[d] = total_points (story points
\* are non-negative).
C26_BurnupMirrorsBurndown ==
    Returned("generate_burnup_data") =>
        LET actual_burndown == generate_burndown_data(work_items, iteration_data, now)[2]
            completed_work == ret.value[2]
        IN  /\ Len(actual_burndown) = Len(completed_work)
            /\ \A i \in 1..Len(completed_work) :
                  RatAdd(actual_burndown[i], completed_work[i]) = Int2Rat(TotalPoints)

\* a running sprint, partly completed, whose series hold a projected day on
\* which the cap of the burnup and the floor of the burndown both act
C26_Witness ==
    /\ Returned("generate_burnup_data")
    /\ ValidWindow
    /\ 0 < DaysElapsed /\ DaysElapsed < DaysTotal
    /\ 0 < CompletedPoints /\ CompletedPoints < TotalPoints
    /\ ret.value[2][Len(ret.value[2])] = Int2Rat(TotalPoints)
    /\ RatLT(Int2Rat(TotalPoints),
             RatMul(Rat(CompletedPoints, DaysElapsed), Int2Rat(DaysTotal)))

\* C27: for a window with startDate <= endDate, at every clock value (before
\* the start, during the sprint and after the end date) the reported timeline
\* satisfies 0 <= days_elapsed <= days_total and 0 <= progress_pct <= 100.
C27_TimelineWithinWindow ==
    (Returned("calculate_metrics") /\ Len(work_items) > 0 /\ ValidWindow) =>
        LET t == ret.value.sprint_progress
        IN  /\ 0 <= t.days_elapsed
            /\ t.days_elapsed <= t.days_total
            /\ RatLE(Zero, t.progress_pct)
            /\ RatLE(t.progress_pct, Int2Rat(100))

RECURSIVE SumOver(_, _)
\* the sum of the values of a counter over the keys K
SumOver(counter, K) ==
    IF K = {} THEN 0
    ELSE LET k == CHOOSE x \in K : TRUE
         IN  counter[k] + SumOver(counter, K \ {k})

\* the sum of all the values of a counter
SumValues(counter) == SumOver(counter, DOMAIN counter)

\* the items without a type, and those without a usable assignee: none, one
\* that is not a dict, or a dict without displayName
Untyped == {i \in ItemIndices : work_items[i].type = Absent}
Unowned ==
    {i \in ItemIndices :
        work_items[i].assignee.kind # "dict" \/ work_items[i].assignee.displayName = Absent}

\* C28: for every non-empty collection the five state_counts buckets, the
\* type_counts values and the assignee_counts values each sum to total_items:
\* every item is counted once in each breakdown, an item without a type under
\* Unknown and an item without a usable assignee under Unassigned.
C28_CountedOnce ==
    (Returned("calculate_metrics") /\ Len(work_items) > 0) =>
        /\ DOMAIN ret.value.state_counts = {"New", "Active", "Resolved", "Closed", "Other"}
        /\ SumValues(ret.value.state_counts) = ret.value.total_items
        /\ SumValues(ret.value.type_counts) = ret.value.total_items
        /\ SumValues(ret.value.assignee_counts) = ret.value.total_items
        /\ ret.value.total_items = Len(work_items)
        /\ \A t \in DOMAIN ret.value.type_counts :
              ret.value.type_counts[t] =
                 Cardinality({i \in ItemIndices \ Untyped : work_items[i].type = t})
                 + (IF t = "Unknown" THEN Cardinality(Untyped) ELSE 0)
        /\ \A a \in DOMAIN ret.value.assignee_counts :
              ret.value.assignee_counts[a] =
                 Cardinality({i \in ItemIndices \ Unowned :
                                 work_items[i].assignee.displayName = a})
                 + (IF a = "Unassigned" THEN Cardinality(Unowned) ELSE 0)
        /\ Untyped # {} => "Unknown" \in DOMAIN ret.value.type_counts
        /\ Unowned # {} => "Unassigned" \in DOMAIN ret.value.assignee_counts

\* an item without a type and with an assignee that is not a dict, next to an
\* item in review that has both
C28_Witness ==
    /\ Returned("calculate_metrics")
    /\ Len(work_items) = 2
    /\ work_items[1].type = Absent /\ work_items[1].assignee.kind = "str"
    /\ work_items[2].state = "In Review"
    /\ ret.value.type_counts = [t \in {"Unknown", "Task"} |-> 1]
    /\ ret.value.assignee_counts = [a \in {"Unassigned", "Ann"} |-> 1]
    /\ ret.value.state_counts.Closed = 1 /\ ret.value.state_counts.Other = 1

\* C29: a started sprint (progress_pct > 0) whose non-empty work items carry
\* no story points at all (total_points = 0) is classified red, never green,
\* yellow or unknown, even when every item is Closed.
C29_NoPointsIsRed ==
    (/\ Returned("calculate_metrics")
     /\ Len(work_items) > 0
     /\ ret.value.total_points = 0
     /\ RatLT(Zero, ret.value.sprint_progress.progress_pct)) =>
        /\ ret.value.completion_rate = Zero
        /\ ret.value.health_status = "red"

\* a started sprint of two Closed items without points: every item is closed
\* and the sprint is red
C29_Witness ==
    /\ Returned("calculate_metrics")
    /\ Len(work_items) = 2
    /\ \A i \in ItemIndices : work_items[i].state = "Closed"
    /\ ret.value.total_points = 0
    /\ ret.value.item_completion_rate = Int2Rat(100)
    /\ RatLT(Zero, ret.value.sprint_progress.progress_pct)
    /\ RatLT(ret.value.sprint_progress.progress_pct, Int2Rat(100))
    /\ ret.value.health_status = "red"

\* the work items given to add_work_items
Given == ret.args[1]

\* the work item x holds a depends_on link to the work item y, or y holds the
\* reverse link to x
DependsOn(x, y) ==
    \/ \E k \in 1..Len(Given[x].relations) :
          Given[x].relations[k] = [rel |-> DependencyForward, url |-> WorkItemUrl(y)]
    \/ \E k \in 1..Len(Given[y].relations) :
          Given[y].relations[k] = [rel |-> DependencyReverse, url |-> WorkItemUrl(x)]

\* the only relation given is a depends_on link from work item 1 to work
\* item 2
SingleLink ==
    /\ Given[1].relations = <<[rel |-> DependencyForward, url |-> WorkItemUrl(2)]>>
    /\ Given[2].relations = <<>>

\* C30: after add_work_items a work item is marked is_blocked, and returned
\* by get_blocked_items, exactly when it depends on an item present in the
\* graph whose state is not Closed, Done or Resolved; an item with a single
\* depends_on link to a present item in state Active is marked blocked.
C30_BlockedItems ==
    /\ ret.op \in {"add_work_items", "get_blocked_items"} =>
          /\ \A x \in DOMAIN graph.attrs :
                graph.attrs[x].is_blocked <=>
                   \E y \in DOMAIN graph.attrs :
                       DependsOn(x, y) /\ graph.attrs[y].state \notin {"Closed", "Done", "Resolved"}
          /\ (SingleLink /\ Given[2].state = "Active") => graph.attrs[1].is_blocked
    /\ ret.op = "get_blocked_items" =>
          {ret.value[k].id : k \in 1..Len(ret.value)} =
             {x \in DOMAIN graph.attrs :
                 \E y \in DOMAIN graph.attrs :
                     DependsOn(x, y) /\ graph.attrs[y].state \notin {"Closed", "Done", "Resolved"}}

====
